---- MODULE Spec2Model ----
(***************************************************************************)
(* Dual-stage orchestration of deepreasoning (src/src/handlers.rs):        *)
(* the non-streaming handler `chat`, the streaming handler `chat_stream`   *)
(* with its background task and bounded hand-off channel, the two provider *)
(* clients' streaming generators (src/src/clients/*.rs) and the cost       *)
(* functions.                                                              *)
(*                                                                         *)
(* Strings are sequences of one-character tokens, so that concatenation,   *)
(* emptiness and equality are computed.  Option<T> is a sequence of length *)
(* at most one.  A cost (f64 dollars) is an exact rational number of       *)
(* thousandths of a dollar: prices are integer cents per million tokens.   *)
(***************************************************************************)
EXTENDS Integers, Sequences, FiniteSets, TLC

\* ------------------------------------------------------------------ bounds
\* network chunks the environment may deliver on each upstream stream
MaxDsReads == 2
MaxAnReads == 2
\* longest message list of the requests the non-streaming handler is run on
MaxMessages == 3
\* most frames in a byte stream fed to a client's read loop
MaxFrames == 3
\* largest token count a cost function is called with, in fifths of a million
MaxTokenSteps == 5
MaxTailFrames == 2
LiveReads == 1
\* length of the forced run of reasoning deltas in the back-pressure scenario
LongLen == 100

\* ------------------------------------------------------ program constants
\* tokio::sync::mpsc::channel(100)
ChannelCapacity == 100
\* StreamEvent::Error { code: 500 }
ErrorCode == 500

\* ----------------------------------------------------------------- Option
None == <<>>
Some(x) == <<x>>
IsSome(o) == o # <<>>
Unwrap(o) == o[1]

\* ------------------------------------------------------------------ text
ThinkOpen == <<"<thinking>\n">>
ThinkClose == <<"\n</thinking>">>

\* format!("<thinking>\n{}\n</thinking>", reasoning)
ThinkingBlock(reasoning) == ThinkOpen \o reasoning \o ThinkClose

\* ------------------------------------------------------------- request
Message(role, content) == [role |-> role, content |-> content]

\* (mutant) validation accepts every request
validate_system_prompt_accepts_all(r) == TRUE

\* ApiRequest::validate_system_prompt
validate_system_prompt(r) ==
    LET system_in_messages == \E i \in 1..Len(r.messages) : r.messages[i].role = "system"
    IN  ~(IsSome(r.system) /\ system_in_messages)

NotSystem(m) == m.role # "system"

\* ApiRequest::get_messages_with_system
get_messages_with_system(r) ==
    (IF IsSome(r.system) THEN <<Message("system", Unwrap(r.system))>> ELSE <<>>)
        \o SelectSeq(r.messages, NotSystem)

IsSystem(m) == m.role = "system"

\* ApiRequest::get_system_prompt
get_system_prompt(r) ==
    IF IsSome(r.system) THEN r.system
    ELSE LET sys == SelectSeq(r.messages, IsSystem)
         IN  IF sys = <<>> THEN None ELSE Some(sys[1].content)

\* extract_api_tokens: both provider tokens must be present in the headers
extract_api_tokens(r) == r.tokens

\* ----------------------------------------------------------------- errors
\* ApiError variants carried through the stream or returned by the handlers
ApiError(variant, type_, message) ==
    [variant |-> variant, type_ |-> type_, message |-> message]

\* #[error("...")] Display of ApiError: prefix of the variant, then the message
DisplayPrefix(variant) ==
    CASE variant = "DeepSeekError" -> "DeepSeek API error: "
      [] variant = "AnthropicError" -> "Anthropic API error: "
      [] variant = "BadRequest" -> "Invalid request: "
      [] variant = "MissingHeader" -> "Missing required header: "
      [] variant = "Internal" -> "Internal server error: "
      [] OTHER -> "Invalid system prompt configuration"

to_string(e) ==
    IF e.variant = "InvalidSystemPrompt" THEN <<DisplayPrefix(e.variant)>>
    ELSE <<DisplayPrefix(e.variant)>> \o e.message

\* the prefix into_response puts before the message of a variant
ResponsePrefix(variant) ==
    CASE variant = "DeepSeekError" -> <<"DeepSeek API Error: ">>
      [] variant = "AnthropicError" -> <<"Anthropic API Error: ">>
      [] variant = "MissingHeader" -> <<"Missing required header: ">>
      [] variant = "Other" -> <<"Internal server error: ">>
      [] OTHER -> <<>>

\* <ApiError as IntoResponse>::into_response: the ErrorDetails of the JSON body
into_response(e) ==
    [message |->
        IF e.variant = "InvalidSystemPrompt"
        THEN <<"System prompt can only be provided once, either in root or messages array">>
        ELSE ResponsePrefix(e.variant) \o e.message,
     type_ |->
        CASE e.variant = "DeepSeekError" -> <<"deepseek_", e.type_>>
          [] e.variant = "AnthropicError" -> <<"anthropic_", e.type_>>
          [] e.variant = "BadRequest" -> <<"bad_request">>
          [] e.variant = "MissingHeader" -> <<"missing_header">>
          [] e.variant = "InvalidSystemPrompt" -> <<"invalid_system_prompt">>
          [] OTHER -> <<"internal_error">>]

\* ------------------------------------------------------------------ costs
\* Config::default().pricing, in cents per million tokens
Pricing ==
    [deepseek |-> [input_cache_hit_price |-> 14, input_cache_miss_price |-> 55,
                   output_price |-> 219],
     anthropic |->
        [claude_3_sonnet |-> [input_price |-> 300, output_price |-> 1500,
                              cache_write_price |-> 375, cache_read_price |-> 30],
         claude_3_haiku  |-> [input_price |-> 80, output_price |-> 400,
                              cache_write_price |-> 100, cache_read_price |-> 8],
         claude_3_opus   |-> [input_price |-> 1500, output_price |-> 7500,
                              cache_write_price |-> 1875, cache_read_price |-> 150]]]

\* Token counts are in units of 64 tokens, so that the u32 range (2^32 tokens)
\* and one million tokens are both whole numbers of units.
\* u32::MAX + 1, in units
U32Range == 67108864
\* 1_000_000.0, in units
PerMillion == 15625

\* u32 subtraction as the release build computes it (wrapping)
Sub32(a, b) == (a - b) % U32Range

\* An f64 dollar amount, exactly: milli thousandths of a dollar plus
\* frac / PerMillion of a thousandth.
\* (tokens as f64 / 1_000_000.0) * price
TokenCost(tokens, price) ==
    LET n == 10 * (tokens % PerMillion) * price
    IN  [milli |-> 10 * (tokens \div PerMillion) * price + n \div PerMillion,
         frac |-> n % PerMillion]

\* f64 addition
AddCost(x, y) ==
    [milli |-> x.milli + y.milli + (x.frac + y.frac) \div PerMillion,
     frac |-> (x.frac + y.frac) % PerMillion]

ZeroCost == [milli |-> 0, frac |-> 0]

(* mutant: the reasoning tokens are charged once more, at the output price *)
calculate_deepseek_cost_charging_reasoning(input_tokens, output_tokens, reasoning_tokens, cached_tokens) ==
    AddCost(AddCost(AddCost(TokenCost(cached_tokens, Pricing.deepseek.input_cache_hit_price),
                            TokenCost(Sub32(input_tokens, cached_tokens),
                                      Pricing.deepseek.input_cache_miss_price)),
                    TokenCost(output_tokens, Pricing.deepseek.output_price)),
            TokenCost(reasoning_tokens, Pricing.deepseek.output_price))

\* calculate_deepseek_cost
calculate_deepseek_cost(input_tokens, output_tokens, reasoning_tokens, cached_tokens) ==
    LET cache_hit_cost == TokenCost(cached_tokens, Pricing.deepseek.input_cache_hit_price)
        cache_miss_cost == TokenCost(Sub32(input_tokens, cached_tokens),
                                     Pricing.deepseek.input_cache_miss_price)
        output_cost == TokenCost(output_tokens, Pricing.deepseek.output_price)
    IN  AddCost(AddCost(cache_hit_cost, cache_miss_cost), output_cost)

\* str::contains on a model identifier, which is a sequence of name parts
Contains(model, part) == \E i \in 1..Len(model) : model[i] = part

(* mutant: the haiku and opus substrings are tried before the sonnet one *)
calculate_anthropic_cost_haiku_first(model, input_tokens, output_tokens, cache_write, cache_read) ==
    LET pricing ==
            IF Contains(model, "claude-3-5-haiku") THEN Pricing.anthropic.claude_3_haiku
            ELSE IF Contains(model, "claude-3-opus") THEN Pricing.anthropic.claude_3_opus
            ELSE Pricing.anthropic.claude_3_sonnet
    IN  AddCost(AddCost(AddCost(TokenCost(input_tokens, pricing.input_price),
                                TokenCost(output_tokens, pricing.output_price)),
                        TokenCost(cache_write, pricing.cache_write_price)),
                TokenCost(cache_read, pricing.cache_read_price))

\* calculate_anthropic_cost
calculate_anthropic_cost(model, input_tokens, output_tokens, cache_write, cache_read) ==
    LET pricing ==
            IF Contains(model, "claude-3-5-sonnet") THEN Pricing.anthropic.claude_3_sonnet
            ELSE IF Contains(model, "claude-3-5-haiku") THEN Pricing.anthropic.claude_3_haiku
            ELSE IF Contains(model, "claude-3-opus") THEN Pricing.anthropic.claude_3_opus
            ELSE Pricing.anthropic.claude_3_sonnet
        input_cost == TokenCost(input_tokens, pricing.input_price)
        output_cost == TokenCost(output_tokens, pricing.output_price)
        cache_write_cost == TokenCost(cache_write, pricing.cache_write_price)
        cache_read_cost == TokenCost(cache_read, pricing.cache_read_price)
    IN  AddCost(AddCost(AddCost(input_cost, output_cost), cache_write_cost), cache_read_cost)

\* the model name the streaming path prices with
StreamPricingModel == <<"claude-3-5-sonnet", "-20241022">>

\* format!("${:.3}", cost): rounded to thousandths of a dollar, three decimals
format_cost(cost) ==
    [prefix |-> "$",
     milli |-> IF 2 * cost.frac > PerMillion THEN cost.milli + 1 ELSE cost.milli,
     decimals |-> 3]

\* the literal "$0.00"
ZeroCostLiteral == [prefix |-> "$", milli |-> 0, decimals |-> 2]

\* AnthropicUsage::from_anthropic
from_anthropic_usage(usage) ==
    [input_tokens |-> usage.input_tokens,
     output_tokens |-> usage.output_tokens,
     cached_write_tokens |-> usage.cache_creation_input_tokens,
     cached_read_tokens |-> usage.cache_read_input_tokens,
     total_tokens |-> usage.input_tokens + usage.output_tokens,
     total_cost |-> ZeroCostLiteral]

\* ----------------------------------------------------------- unified events
ContentBlock(content_type, text) == [content_type |-> content_type, text |-> text]

\* (mutant) only the first block of the response provider is kept
BlocksFromAnthropicFirstOnly(blocks) ==
    IF blocks = <<>> THEN <<>>
    ELSE <<[content_type |-> blocks[1].content_type, text |-> blocks[1].text]>>

\* ContentBlock::from_anthropic applied to every block
BlocksFromAnthropic(blocks) ==
    [i \in 1..Len(blocks) |-> ContentBlock(blocks[i].content_type, blocks[i].text)]

StartEvent == [type |-> "start"]
ContentEvent(blocks) == [type |-> "content", content |-> blocks]
UsageEvent(usage) == [type |-> "usage", usage |-> usage]
ErrorEvent(e) == [type |-> "error", message |-> to_string(e), code |-> ErrorCode]
DoneEvent == [type |-> "done"]

\* the deepseek half of the `usage` event (handlers.rs, MessageDelta arm)
StreamDeepSeekUsage(deepseek_usage) ==
    IF IsSome(deepseek_usage)
    THEN LET usage == Unwrap(deepseek_usage)
             cost == calculate_deepseek_cost(usage.prompt_tokens, usage.completion_tokens,
                                             usage.reasoning_tokens, usage.cached_tokens)
         IN  [usage |-> [input_tokens |-> usage.prompt_tokens,
                         output_tokens |-> usage.completion_tokens,
                         reasoning_tokens |-> usage.reasoning_tokens,
                         cached_input_tokens |-> usage.cached_tokens,
                         total_tokens |-> usage.total_tokens,
                         total_cost |-> format_cost(cost)],
              cost |-> cost]
    ELSE [usage |-> [input_tokens |-> 0, output_tokens |-> 0, reasoning_tokens |-> 0,
                     cached_input_tokens |-> 0, total_tokens |-> 0,
                     total_cost |-> ZeroCostLiteral],
          cost |-> ZeroCost]

\* the CombinedUsage the streaming path sends for one usage-bearing message_delta
StreamCombinedUsage(usage, deepseek_usage) ==
    LET anthropic_usage == from_anthropic_usage(usage)
        anthropic_cost == calculate_anthropic_cost(StreamPricingModel,
                              anthropic_usage.input_tokens, anthropic_usage.output_tokens,
                              anthropic_usage.cached_write_tokens,
                              anthropic_usage.cached_read_tokens)
        ds == StreamDeepSeekUsage(deepseek_usage)
    IN  [total_cost |-> format_cost(AddCost(ds.cost, anthropic_cost)),
         deepseek_usage |-> ds.usage,
         anthropic_usage |-> [anthropic_usage EXCEPT !.total_cost = format_cost(anthropic_cost)]]

\* ------------------------------------------------- inputs: the caller's request
UserMsg == Message("user", <<"q">>)
SysMsg == Message("system", <<"s">>)
AsstMsg == Message("assistant", <<"r">>)

\* ApiConfig::body left out of the request: serde_json::Value::Null, which
\* has no keys
NullBody == <<>>

Request(stream, system, messages, tokens, ds_headers_ok, an_headers_ok) ==
    [stream |-> stream, system |-> system, messages |-> messages, tokens |-> tokens,
     deepseek_config |-> [headers_ok |-> ds_headers_ok, body |-> NullBody],
     anthropic_config |-> [headers_ok |-> an_headers_ok, body |-> NullBody]]

\* the requests the handlers are exercised with
Requests ==
    { Request(st, Some(<<"s">>), <<UserMsg>>, TRUE, TRUE, TRUE) : st \in BOOLEAN }
      \cup { Request(st, None, <<UserMsg, SysMsg, AsstMsg>>, TRUE, TRUE, TRUE) : st \in BOOLEAN }
      \cup { Request(st, Some(<<"s">>), <<SysMsg, UserMsg>>, TRUE, TRUE, TRUE) : st \in BOOLEAN }
      \cup { Request(st, None, <<UserMsg>>, FALSE, TRUE, TRUE) : st \in BOOLEAN }
      \cup { Request(st, None, <<UserMsg>>, TRUE, FALSE, TRUE) : st \in BOOLEAN }
      \cup { Request(st, None, <<UserMsg>>, TRUE, TRUE, FALSE) : st \in BOOLEAN }

\* the messages a conversation is made of
MessageAlphabet ==
    {SysMsg, Message("system", <<"t">>), UserMsg, AsstMsg}

\* every non-streaming request with at most MaxMessages messages, with or
\* without a root system field, whose tokens and headers are in order
ChatRequests ==
    { Request(FALSE, system, messages, TRUE, TRUE, TRUE) :
        system \in {None, Some(<<"s">>)},
        messages \in UNION {[1..n -> MessageAlphabet] : n \in 0..MaxMessages} }

\* ------------------------------------- inputs: what the reasoning provider sends
DsUsage(prompt, completion, cached, reasoning) ==
    [prompt_tokens |-> prompt, completion_tokens |-> completion,
     total_tokens |-> prompt + completion, cached_tokens |-> cached,
     reasoning_tokens |-> reasoning]

DsUsageA == DsUsage(15625, 15625, 0, 64)
DsUsageB == DsUsage(31250, 100, 15625, 0)

JunkFrame == [kind |-> "junk"]

\* a frame that decodes as a deepseek StreamResponse
DsFrame(choices, usage) == [kind |-> "data", choices |-> choices, usage |-> usage]
DsDelta(reasoning_content) == [reasoning_content |-> reasoning_content]

\* network chunks of a 2xx streaming body, each a sequence of complete frames
DsChunks ==
    { <<DsFrame(<<DsDelta(Some(<<"a">>))>>, None)>>,
      <<DsFrame(<<DsDelta(Some(<<"a">>))>>, None),
        DsFrame(<<DsDelta(Some(<<"b">>))>>, Some(DsUsageA))>>,
      <<DsFrame(<<DsDelta(Some(<<>>))>>, None), JunkFrame>>,
      <<DsFrame(<<DsDelta(None)>>, Some(DsUsageB)), DsFrame(<<DsDelta(Some(<<"c">>))>>, None)>>,
      <<JunkFrame, DsFrame(<<>>, Some(DsUsageB))>> }

\* network chunks of a non-2xx body: an error document, not an event stream
ErrorBodyChunks == { <<JunkFrame>>, <<>> }

\* the chunk every read of the forced run delivers
WarmupChunk == <<DsFrame(<<DsDelta(Some(<<"a">>))>>, None)>>

HttpStatuses == {200, 500}

\* non-streaming: the decoded body of a 2xx answer
DsResponses ==
    { [choices |-> ch, usage |-> DsUsageA] :
        ch \in { <<>>, <<DsDelta(None)>>, <<DsDelta(Some(<<"a", "b">>))>>,
                 <<DsDelta(Some(<<>>))>> } }

\* ------------------------------------- inputs: what the response provider sends
AnUsage(input, output, cache_write, cache_read) ==
    [input_tokens |-> input, output_tokens |-> output,
     cache_creation_input_tokens |-> cache_write, cache_read_input_tokens |-> cache_read]

AnUsageA == AnUsage(15625, 3125, 0, 0)
AnUsageB == AnUsage(100, 200, 15625, 64)

SonnetModel == <<"claude-3-5-sonnet", "-20241022">>
HaikuModel == <<"claude-3-5-haiku", "-20241022">>
OpusModel == <<"claude-3-opus", "-20240229">>

AnBlock(content_type, text) == [content_type |-> content_type, text |-> text]

AnResponse(model, content, usage) == [model |-> model, content |-> content, usage |-> usage]

\* frames that decode as an anthropic StreamEvent
MessageStart(message) == [kind |-> "message_start", message |-> message]
ContentBlockDelta(delta_type, text) ==
    [kind |-> "content_block_delta", delta |-> [delta_type |-> delta_type, text |-> text]]
MessageDelta(usage) == [kind |-> "message_delta", usage |-> usage]
ContentBlockStart == [kind |-> "content_block_start"]
ContentBlockStop == [kind |-> "content_block_stop"]
MessageStop == [kind |-> "message_stop"]
Ping == [kind |-> "ping"]

AnChunks ==
    { <<MessageStart(AnResponse(SonnetModel, <<AnBlock("text", <<"x">>)>>, AnUsageA))>>,
      <<ContentBlockDelta("text_delta", <<"y">>), ContentBlockDelta("other_delta", <<"z">>)>>,
      <<MessageDelta(Some(AnUsageA)), MessageDelta(Some(AnUsageB))>>,
      <<JunkFrame, MessageStart(AnResponse(HaikuModel, <<>>, AnUsageA)), ContentBlockStart,
        MessageDelta(None), Ping, ContentBlockStop, MessageStop>> }

AnResponses ==
    { AnResponse(m, c, AnUsageA) :
        m \in {SonnetModel, HaikuModel},
        c \in { <<>>, <<AnBlock("text", <<"x">>), AnBlock("text", <<"y">>)>> } }

\* ------------------------------------------------------------------ state
VARIABLES
    req,                \* the ApiRequest being handled
    warmup,             \* reads left in the forced run of reasoning deltas
    limits,             \* network chunks the environment may deliver per stream
    pc,                 \* where the handler, then the background task, stands
    result,             \* what the HTTP handler returned (None while it runs)
    upstream,           \* every upstream interaction so far, in order
    chan,               \* the mpsc buffer between tx and rx
    rxOpen,             \* the consumer still holds rx
    produced,           \* every tx.send the task has made, with its send site
    received,           \* the events the consumer has taken from rx
    sendFailed,         \* some tx.send has returned Err(SendError)
    deepseek_stream,    \* the reasoning client's generator
    anthropic_stream,   \* the response client's generator
    deepseek_usage,     \* Option<Usage>
    complete_reasoning, \* String
    anthropic_messages, \* the stage-2 message list, once built
    cur,                \* the item of the stream being handled
    ds_items,           \* the items deepseek_stream has yielded to the task
    an_items,           \* the items anthropic_stream has yielded to the task
                        \* (non-streaming: the response provider's one response)
    parser,             \* a client generator's read loop, run on a byte stream
    call,               \* a client's or cost function's call, run on its own
    pair                \* two requests handled at the same time, each by its own task

vars == <<pair, call, parser, req, warmup, limits, pc, result, upstream, chan, rxOpen, produced, received, sendFailed,
          deepseek_stream, anthropic_stream, deepseek_usage, complete_reasoning,
          anthropic_messages, cur, ds_items, an_items>>

\* the read loop is not under study
NoParser == [provider |-> "none"]

\* no function is called on its own
NoCall == [fn |-> "none"]

\* a single request is under study
NoPair == [tasks |-> <<>>]

NoStream == [conn |-> "none", status |-> 0, buf |-> <<>>, reads |-> 0]

InitWith(requests, w, read_limits) ==
    /\ req \in requests
    /\ warmup = w
    /\ limits \in read_limits
    /\ pc = "handle_chat"
    /\ result = None
    /\ upstream = <<>>
    /\ chan = <<>>
    /\ rxOpen = TRUE
    /\ produced = <<>>
    /\ received = <<>>
    /\ sendFailed = FALSE
    /\ deepseek_stream = NoStream
    /\ anthropic_stream = NoStream
    /\ deepseek_usage = None
    /\ complete_reasoning = <<>>
    /\ anthropic_messages = None
    /\ cur = None
    /\ ds_items = <<>>
    /\ an_items = <<>>

\* a run has a long reasoning body and a one-chunk response body, or the converse
Init ==
    /\ InitWith(Requests, 0, {[ds |-> MaxDsReads, an |-> 1], [ds |-> 1, an |-> MaxAnReads]}) /\ pair = NoPair
    /\ parser = NoParser
    /\ call = NoCall

Ok(v) == [ok |-> TRUE, value |-> v]
Err(e) == [ok |-> FALSE, error |-> e]

Up(provider, op) == [provider |-> provider, op |-> op]

\* ---------------------------------------------------- the hand-off channel
\* (mutant) a send never waits for room in the buffer
SendReadyUnbounded == TRUE

\* tx.send(..).await completes: at once with Err when rx is gone, otherwise
\* when the buffer has room
SendReady == rxOpen => Len(chan) < ChannelCapacity

\* (mutant) a sent event overtakes the events still in the buffer
ChanPushFront(q, ev) == <<ev>> \o q

\* the buffer after a successful send
ChanPush(q, ev) == Append(q, ev)

\* the event ReceiverStream yields next, and the buffer after it
ChanFront(q) == Head(q)
ChanPop(q) == Tail(q)

\* let _ = tx.send(Ok(Event::default().event(..).data(..))).await;
TxSend(ev, site) ==
    /\ SendReady
    /\ produced' = Append(produced, [ev |-> ev, site |-> site])
    /\ chan' = IF rxOpen THEN ChanPush(chan, ev) ELSE chan
    /\ sendFailed' = (sendFailed \/ ~rxOpen)
    /\ UNCHANGED <<rxOpen, received>>

\* chat_stream has returned Ok(SseResponse::new(stream))
StreamReturned == req.stream /\ IsSome(result) /\ Unwrap(result).ok

\* generator state: "none" before chat_stream is called, "once_err" a
\* stream::once(Err), "idle" not yet polled, "open" reading the body, "closed"
\* ended, "failed" ended by yielding Err

\* the SSE body polls ReceiverStream and writes the event to the connection
ConsumerRecv ==
    /\ rxOpen
    /\ chan # <<>>
    /\ received' = Append(received, ChanFront(chan))
    /\ chan' = ChanPop(chan)
    /\ UNCHANGED <<pair, call, parser, req, warmup, limits, pc, result, upstream, rxOpen, produced, sendFailed,
                   deepseek_stream, anthropic_stream, deepseek_usage, complete_reasoning,
                   anthropic_messages, cur, ds_items, an_items>>

\* the caller disconnects: the SSE body, and rx with it, is dropped
ConsumerDrop ==
    /\ rxOpen
    /\ StreamReturned
    /\ rxOpen' = FALSE
    /\ chan' = <<>>
    /\ UNCHANGED <<pair, call, parser, req, warmup, limits, pc, result, upstream, produced, received, sendFailed,
                   deepseek_stream, anthropic_stream, deepseek_usage, complete_reasoning,
                   anthropic_messages, cur, ds_items, an_items>>

\* ------------------------------------------------ provider client generators
Decodable(frame) == frame.kind # "junk"

\* the inner `while let Some(end) = data[start..].find("\n\n")` loop: the frames
\* of one chunk that decode, in order; the others are skipped
DecodeFrames(chunk) == SelectSeq(chunk, Decodable)

\* DeepSeekClient::chat_stream / AnthropicClient::chat_stream up to the generator:
\* build_headers fails -> stream::once(Err), else a generator not yet polled
NewStream(config) ==
    [NoStream EXCEPT !.conn = IF config.headers_ok THEN "idle" ELSE "once_err"]

HeaderError == ApiError("BadRequest", "bad_request", <<"Invalid header">>)

\* --------------------------------------------------- chat_stream: the handler
ChatStream ==
    /\ pc = "handle_chat"
    /\ req.stream
    /\ IF ~validate_system_prompt(req)
       THEN /\ result' = Some(Err(ApiError("InvalidSystemPrompt", "invalid_system_prompt", <<>>)))
            /\ pc' = "rejected"
       ELSE IF ~extract_api_tokens(req)
       THEN /\ result' = Some(Err(ApiError("MissingHeader", "missing_header", <<"token">>)))
            /\ pc' = "rejected"
       ELSE /\ result' = Some(Ok("sse"))
            /\ pc' = "send_start"
    /\ UNCHANGED <<pair, call, parser, req, warmup, limits, upstream, chan, rxOpen, produced, received, sendFailed,
                   deepseek_stream, anthropic_stream, deepseek_usage, complete_reasoning,
                   anthropic_messages, cur, ds_items, an_items>>

\* ------------------------------------------- chat_stream: the background task
SendStart ==
    /\ pc = "send_start"
    /\ TxSend(StartEvent, "start")
    /\ pc' = "send_open_tag"
    /\ UNCHANGED <<pair, call, parser, req, warmup, limits, result, upstream, deepseek_stream, anthropic_stream,
                   deepseek_usage, complete_reasoning, anthropic_messages, cur, ds_items, an_items>>

SendOpenTag ==
    /\ pc = "send_open_tag"
    /\ TxSend(ContentEvent(<<ContentBlock("text", ThinkOpen)>>), "open_tag")
    /\ deepseek_usage' = None
    /\ complete_reasoning' = <<>>
    /\ deepseek_stream' = NewStream(req.deepseek_config)
    /\ pc' = "ds_next"
    /\ UNCHANGED <<pair, call, parser, req, warmup, limits, result, upstream, anthropic_stream, anthropic_messages, cur, ds_items, an_items>>

\* (mutant) the reasoning stream is still polled while stage 2 runs
DsPollingOverlapping == pc \in {"ds_next", "an_next"}

\* the task is suspended in deepseek_stream.next().await
DsPolling == pc = "ds_next"

\* first poll of the reasoning generator: client.post(..).send().await
DsRequest ==
    /\ DsPolling
    /\ deepseek_stream.conn \in {"idle", "once_err"}
    /\ IF deepseek_stream.conn = "once_err"
       THEN /\ cur' = Some(HeaderError)
            /\ deepseek_stream' = [deepseek_stream EXCEPT !.conn = "failed"]
            /\ pc' = "send_ds_error"
            /\ UNCHANGED upstream
       ELSE /\ upstream' = Append(upstream, Up("deepseek", "request"))
            /\ \/ /\ warmup = 0
                  /\ cur' = Some(ApiError("DeepSeekError", "request_failed",
                                          <<"Request failed: ">>))
                  /\ deepseek_stream' = [deepseek_stream EXCEPT !.conn = "failed"]
                  /\ pc' = "send_ds_error"
               \/ \E status \in HttpStatuses :
                  /\ warmup > 0 => status = 200
                  /\ deepseek_stream' = [deepseek_stream EXCEPT !.conn = "open",
                                                                !.status = status]
                  /\ UNCHANGED <<pc, cur>>
    /\ UNCHANGED <<pair, call, parser, req, warmup, limits, result, chan, rxOpen, produced, received, sendFailed,
                   anthropic_stream, deepseek_usage, complete_reasoning, anthropic_messages, ds_items, an_items>>

\* outcomes of one stream.next().await on a response body
EndOfBody == [t |-> "end"]
TransportError == [t |-> "err"]
Chunk(frames) == [t |-> "chunk", frames |-> frames]

\* what the next stream.next().await on the reasoning body can deliver
DsReadOutcomes ==
    IF warmup > 0 THEN {Chunk(WarmupChunk)}
    ELSE {EndOfBody, TransportError} \cup
         (IF deepseek_stream.reads >= limits.ds THEN {}
          ELSE IF deepseek_stream.status = 200 THEN {Chunk(c) : c \in DsChunks}
          ELSE {Chunk(c) : c \in ErrorBodyChunks})

\* the generator reads the next network chunk and splits it into frames
DsRead ==
    /\ DsPolling
    /\ deepseek_stream.conn = "open"
    /\ deepseek_stream.buf = <<>>
    /\ upstream' = Append(upstream, Up("deepseek", "read"))
    /\ \E chunk \in DsReadOutcomes :
         IF chunk.t = "end"
         THEN /\ deepseek_stream' = [deepseek_stream EXCEPT !.conn = "closed"]
              /\ pc' = "send_close_tag"
              /\ UNCHANGED <<cur, warmup>>
         ELSE IF chunk.t = "err"
         THEN /\ deepseek_stream' = [deepseek_stream EXCEPT !.conn = "failed"]
              /\ cur' = Some(ApiError("DeepSeekError", "stream_error", <<"Stream error: ">>))
              /\ pc' = "send_ds_error"
              /\ UNCHANGED warmup
         ELSE /\ deepseek_stream' =
                    [deepseek_stream EXCEPT !.buf = DecodeFrames(chunk.frames),
                                            !.reads = IF warmup > 0 THEN @ ELSE @ + 1]
              /\ warmup' = IF warmup > 0 THEN warmup - 1 ELSE warmup
              /\ UNCHANGED <<pc, cur>>
    /\ UNCHANGED <<pair, call, parser, req, limits, result, chan, rxOpen, produced, received, sendFailed,
                   anthropic_stream, deepseek_usage, complete_reasoning, anthropic_messages, ds_items, an_items>>

(* mutant: a usage already stored is not replaced by a later one *)
StoreUsageKeepsFirst(old, response) == IF IsSome(old) THEN old ELSE response.usage

\* Store usage information if present
StoreUsage(old, response) == IF IsSome(response.usage) THEN response.usage ELSE old

\* (mutant) the is_empty check on the reasoning delta is missing
DsItemKindNoEmptyCheck(response) ==
    IF response.choices # <<>> /\ ~IsSome(response.choices[1].reasoning_content)
    THEN "break"
    ELSE IF response.choices # <<>> THEN "delta" ELSE "skip"

(* mutant: a first choice without reasoning_content is passed over *)
DsItemKindIgnoresSentinel(response) ==
    IF response.choices # <<>> /\ IsSome(response.choices[1].reasoning_content)
                              /\ Unwrap(response.choices[1].reasoning_content) # <<>>
    THEN "delta"
    ELSE "skip"

\* what the Ok(response) arm does with a chunk: "break" on a first choice whose
\* reasoning_content is None, "delta" on a non-empty one, "skip" otherwise
DsItemKind(response) ==
    IF response.choices # <<>> /\ ~IsSome(response.choices[1].reasoning_content)
    THEN "break"
    ELSE IF response.choices # <<>> /\ Unwrap(response.choices[1].reasoning_content) # <<>>
    THEN "delta"
    ELSE "skip"

\* the generator yields a decoded chunk: the Ok(response) arm up to its send
DsItem ==
    /\ DsPolling
    /\ deepseek_stream.buf # <<>>
    /\ LET response == Head(deepseek_stream.buf)
           choices == response.choices
       IN  /\ deepseek_stream' = [deepseek_stream EXCEPT !.buf = Tail(@)]
           /\ ds_items' = Append(ds_items, response)
           /\ IF DsItemKind(response) = "break"
              THEN /\ pc' = "send_close_tag"
                   /\ UNCHANGED <<cur, deepseek_usage>>
              ELSE IF DsItemKind(response) = "delta"
              THEN /\ cur' = Some(response)
                   /\ pc' = "send_ds_delta"
                   /\ UNCHANGED deepseek_usage
              ELSE /\ deepseek_usage' = StoreUsage(deepseek_usage, response)
                   /\ UNCHANGED <<pc, cur>>
    /\ UNCHANGED <<pair, call, parser, req, warmup, limits, result, upstream, chan, rxOpen, produced, received,
                   sendFailed, anthropic_stream, complete_reasoning, anthropic_messages,
                   an_items>>

(* mutant: the delta is put in front of the accumulated text *)
AccumulatePrepends(text, reasoning) == reasoning \o text

\* complete_reasoning.push_str(reasoning)
Accumulate(text, reasoning) == text \o reasoning

SendDsDelta ==
    /\ pc = "send_ds_delta"
    /\ LET response == Unwrap(cur)
           reasoning == Unwrap(response.choices[1].reasoning_content)
       IN  /\ TxSend(ContentEvent(<<ContentBlock("text_delta", reasoning)>>), "ds_delta")
           /\ complete_reasoning' = Accumulate(complete_reasoning, reasoning)
           /\ deepseek_usage' = StoreUsage(deepseek_usage, response)
    /\ cur' = None
    /\ pc' = "ds_next"
    /\ UNCHANGED <<pair, call, parser, req, warmup, limits, result, upstream, deepseek_stream, anthropic_stream,
                   anthropic_messages, ds_items, an_items>>

\* (mutant) the Err arm of the reasoning loop falls through instead of returning
AfterDsErrorFallThrough == "send_close_tag"

\* `return;` after the error event of the reasoning stage
AfterDsError == "returned"

SendDsError ==
    /\ pc = "send_ds_error"
    /\ TxSend(ErrorEvent(Unwrap(cur)), "ds_error")
    /\ cur' = None
    /\ pc' = AfterDsError
    /\ UNCHANGED <<pair, call, parser, req, warmup, limits, result, upstream, deepseek_stream, anthropic_stream,
                   deepseek_usage, complete_reasoning, anthropic_messages, ds_items, an_items>>

\* AnthropicClient::build_request: the system-role messages are filtered out of
\* the list and the system prompt travels in its own field
\* A JSON object is a function from its keys to their values.
\* Value::get: the value under a key, or the default
json_get(object, key, default) == IF key \in DOMAIN object THEN object[key] ELSE default

\* Map::remove for each of the keys
json_remove(object, keys) == [k \in DOMAIN object \ keys |-> object[k]]

\* `for (key, value) in body { map.insert(key, value); }`
json_merge(map, body) ==
    [k \in DOMAIN map \cup DOMAIN body |-> IF k \in DOMAIN body THEN body[k] ELSE map[k]]

(* mutant: no key of config.body is removed before the merge *)
deepseek_protected_none == {}

\* the keys DeepSeekClient::build_request removes from config.body
deepseek_protected == {"stream", "messages"}

\* DeepSeekClient::build_request, as the JSON body that is sent: the struct's
\* messages and stream fields and its flattened additional_params
deepseek_build_request(messages, stream, config) ==
    LET request_value ==
            [messages |-> messages,
             stream |-> stream,
             model |-> json_get(config.body, "model", <<"deepseek-reasoner">>),
             max_tokens |-> json_get(config.body, "max_tokens", 8192),
             temperature |-> json_get(config.body, "temperature", 1),
             response_format |-> [type |-> "text"]]
    IN  json_merge(request_value, json_remove(config.body, deepseek_protected))

(* mutant: system is not among the keys removed from config.body *)
anthropic_protected_without_system == {"stream", "messages"}

\* the keys AnthropicClient::build_request removes from config.body
anthropic_protected == {"stream", "messages", "system"}

\* AnthropicClient::build_request, as the JSON body that is sent: the system
\* key is left out when the field is None
anthropic_build_request(messages, system, stream, config) ==
    LET filtered_messages == SelectSeq(messages, NotSystem)
        model_value == json_get(config.body, "model", SonnetModel)
        default_max_tokens == IF Contains(model_value, "claude-3-opus") THEN 4096 ELSE 8192
        request_value ==
            [messages |-> filtered_messages,
             stream |-> stream,
             model |-> model_value,
             max_tokens |-> json_get(config.body, "max_tokens", default_max_tokens)]
        with_system ==
            IF IsSome(system)
            THEN json_merge(request_value, [system |-> Unwrap(system)])
            ELSE request_value
    IN  json_merge(with_system, json_remove(config.body, anthropic_protected))

\* (mutant) the synthesized assistant turn is put before the conversation
Stage2MessagesThinkingFirst(messages, reasoning) ==
    <<Message("assistant", ThinkingBlock(reasoning))>> \o messages

\* the message list handed to the response provider
Stage2Messages(messages, reasoning) ==
    messages \o <<Message("assistant", ThinkingBlock(reasoning))>>

SendCloseTag ==
    /\ pc = "send_close_tag"
    /\ TxSend(ContentEvent(<<ContentBlock("text", ThinkClose)>>), "close_tag")
    /\ anthropic_messages' =
           Some(Stage2Messages(get_messages_with_system(req), complete_reasoning))
    /\ anthropic_stream' = NewStream(req.anthropic_config)
    /\ pc' = "an_next"
    /\ UNCHANGED <<pair, call, parser, req, warmup, limits, result, upstream, deepseek_stream, deepseek_usage,
                   complete_reasoning, cur, ds_items, an_items>>

\* the task is suspended in anthropic_stream.next().await
AnPolling == pc = "an_next"

\* first poll of the response generator: client.post(..).send().await
AnRequest ==
    /\ AnPolling
    /\ anthropic_stream.conn \in {"idle", "once_err"}
    /\ IF anthropic_stream.conn = "once_err"
       THEN /\ cur' = Some(HeaderError)
            /\ anthropic_stream' = [anthropic_stream EXCEPT !.conn = "failed"]
            /\ pc' = "send_an_error"
            /\ UNCHANGED upstream
       ELSE /\ upstream' = Append(upstream, Up("anthropic", "request"))
            /\ \/ /\ cur' = Some(ApiError("AnthropicError", "request_failed",
                                          <<"Request failed: ">>))
                  /\ anthropic_stream' = [anthropic_stream EXCEPT !.conn = "failed"]
                  /\ pc' = "send_an_error"
               \/ \E status \in HttpStatuses :
                  /\ anthropic_stream' = [anthropic_stream EXCEPT !.conn = "open",
                                                                  !.status = status]
                  /\ UNCHANGED <<pc, cur>>
    /\ UNCHANGED <<pair, call, parser, req, warmup, limits, result, chan, rxOpen, produced, received, sendFailed,
                   deepseek_stream, deepseek_usage, complete_reasoning, anthropic_messages, ds_items, an_items>>

\* what the next stream.next().await on the response body can deliver
AnReadOutcomes ==
    {EndOfBody, TransportError} \cup
    (IF anthropic_stream.reads >= limits.an THEN {}
     ELSE IF anthropic_stream.status = 200 THEN {Chunk(c) : c \in AnChunks}
     ELSE {Chunk(c) : c \in ErrorBodyChunks})

\* the generator reads the next network chunk and splits it into frames
AnRead ==
    /\ AnPolling
    /\ anthropic_stream.conn = "open"
    /\ anthropic_stream.buf = <<>>
    /\ upstream' = Append(upstream, Up("anthropic", "read"))
    /\ \E chunk \in AnReadOutcomes :
         IF chunk.t = "end"
         THEN /\ anthropic_stream' = [anthropic_stream EXCEPT !.conn = "closed"]
              /\ pc' = "send_done"
              /\ UNCHANGED cur
         ELSE IF chunk.t = "err"
         THEN /\ anthropic_stream' = [anthropic_stream EXCEPT !.conn = "failed"]
              /\ cur' = Some(ApiError("AnthropicError", "stream_error", <<"Stream error: ">>))
              /\ pc' = "send_an_error"
         ELSE /\ anthropic_stream' =
                    [anthropic_stream EXCEPT !.buf = DecodeFrames(chunk.frames),
                                             !.reads = @ + 1]
              /\ UNCHANGED <<pc, cur>>
    /\ UNCHANGED <<pair, call, parser, req, warmup, limits, result, chan, rxOpen, produced, received, sendFailed,
                   deepseek_stream, deepseek_usage, complete_reasoning, anthropic_messages, ds_items, an_items>>

(* mutant: an initial message event is forwarded whatever its content list holds *)
AnSendSiteForwardsEmptyStart(event) ==
    CASE event.kind = "message_start" -> "send_an_start"
      [] event.kind = "content_block_delta" -> "send_an_delta"
      [] event.kind = "message_delta" ->
            IF IsSome(event.usage) THEN "send_usage" ELSE ""
      [] OTHER -> ""

\* (mutant) the usage event is sent only when the reasoning stage recorded usage
AnSendSiteNeedsReasoningUsage(event) ==
    CASE event.kind = "message_start" ->
            IF event.message.content # <<>> THEN "send_an_start" ELSE ""
      [] event.kind = "content_block_delta" -> "send_an_delta"
      [] event.kind = "message_delta" ->
            IF IsSome(event.usage) /\ IsSome(deepseek_usage) THEN "send_usage" ELSE ""
      [] OTHER -> ""

\* the send site an event of the response stream leads to ("" when it sends nothing)
AnSendSite(event) ==
    CASE event.kind = "message_start" ->
            IF event.message.content # <<>> THEN "send_an_start" ELSE ""
      [] event.kind = "content_block_delta" -> "send_an_delta"
      [] event.kind = "message_delta" ->
            IF IsSome(event.usage) THEN "send_usage" ELSE ""
      [] OTHER -> ""

\* the generator yields a decoded event: the Ok(event) arm up to its send
AnItem ==
    /\ AnPolling
    /\ anthropic_stream.buf # <<>>
    /\ LET event == Head(anthropic_stream.buf)
       IN  /\ anthropic_stream' = [anthropic_stream EXCEPT !.buf = Tail(@)]
           /\ an_items' = Append(an_items, event)
           /\ IF AnSendSite(event) # ""
              THEN /\ cur' = Some(event)
                   /\ pc' = AnSendSite(event)
              ELSE UNCHANGED <<pc, cur>>
    /\ UNCHANGED <<pair, call, parser, req, warmup, limits, result, upstream, chan, rxOpen, produced, received,
                   sendFailed, deepseek_stream, deepseek_usage, complete_reasoning,
                   anthropic_messages, ds_items>>

SendAnStart ==
    /\ pc = "send_an_start"
    /\ TxSend(ContentEvent(BlocksFromAnthropic(Unwrap(cur).message.content)), "an_start")
    /\ cur' = None
    /\ pc' = "an_next"
    /\ UNCHANGED <<pair, call, parser, req, warmup, limits, result, upstream, deepseek_stream, anthropic_stream,
                   deepseek_usage, complete_reasoning, anthropic_messages, ds_items, an_items>>

(* mutant: every forwarded delta is tagged text_delta *)
DeltaBlockAsTextDelta(delta) == ContentBlock("text_delta", delta.text)

\* ContentBlock { content_type: delta.delta_type, text: delta.text }
DeltaBlock(delta) == ContentBlock(delta.delta_type, delta.text)

SendAnDelta ==
    /\ pc = "send_an_delta"
    /\ TxSend(ContentEvent(<<DeltaBlock(Unwrap(cur).delta)>>), "an_delta")
    /\ cur' = None
    /\ pc' = "an_next"
    /\ UNCHANGED <<pair, call, parser, req, warmup, limits, result, upstream, deepseek_stream, anthropic_stream,
                   deepseek_usage, complete_reasoning, anthropic_messages, ds_items, an_items>>

SendUsage ==
    /\ pc = "send_usage"
    /\ TxSend(UsageEvent(StreamCombinedUsage(Unwrap(Unwrap(cur).usage), deepseek_usage)),
              "usage")
    /\ cur' = None
    /\ pc' = "an_next"
    /\ UNCHANGED <<pair, call, parser, req, warmup, limits, result, upstream, deepseek_stream, anthropic_stream,
                   deepseek_usage, complete_reasoning, anthropic_messages, ds_items, an_items>>

(* mutant: the Err arm of the response loop polls the ended stream again *)
AfterAnErrorKeepsPolling == "an_next"

\* (mutant) the Err arm of the response loop falls through to the done event
AfterAnErrorFallThrough == "send_done"

\* `return;` after the error event of the response stage
AfterAnError == "returned"

SendAnError ==
    /\ pc = "send_an_error"
    /\ TxSend(ErrorEvent(Unwrap(cur)), "an_error")
    /\ cur' = None
    /\ pc' = AfterAnError
    /\ UNCHANGED <<pair, call, parser, req, warmup, limits, result, upstream, deepseek_stream, anthropic_stream,
                   deepseek_usage, complete_reasoning, anthropic_messages, ds_items, an_items>>

SendDone ==
    /\ pc = "send_done"
    /\ TxSend(DoneEvent, "done")
    /\ pc' = "returned"
    /\ UNCHANGED <<pair, call, parser, req, warmup, limits, result, upstream, deepseek_stream, anthropic_stream,
                   deepseek_usage, complete_reasoning, anthropic_messages, cur, ds_items, an_items>>

\* ------------------------------------------------- chat: the non-streaming path
\* chat, up to the first upstream call
Chat ==
    /\ pc = "handle_chat"
    /\ ~req.stream
    /\ IF ~validate_system_prompt(req)
       THEN /\ result' = Some(Err(ApiError("InvalidSystemPrompt", "invalid_system_prompt", <<>>)))
            /\ pc' = "rejected"
       ELSE IF ~extract_api_tokens(req)
       THEN /\ result' = Some(Err(ApiError("MissingHeader", "missing_header", <<"token">>)))
            /\ pc' = "rejected"
       ELSE /\ pc' = "chat_deepseek"
            /\ UNCHANGED result
    /\ UNCHANGED <<pair, call, parser, req, warmup, limits, upstream, chan, rxOpen, produced, received, sendFailed,
                   deepseek_stream, anthropic_stream, deepseek_usage, complete_reasoning,
                   anthropic_messages, cur, ds_items, an_items>>

\* outcomes of one non-streaming HTTP exchange
ExchangeOutcomes(responses) ==
    {[t |-> "request_failed"], [t |-> "api_error"], [t |-> "parse_error"]}
        \cup {[t |-> "ok", response |-> r] : r \in responses}

ExchangeMessage(t) ==
    CASE t = "request_failed" -> <<"Request failed: ">>
      [] t = "api_error" -> <<"body">>
      [] OTHER -> <<"Failed to parse response: ">>

\* (mutant) a failed exchange is attempted again
OnUpstreamErrorRetry == pc

\* `client.chat(..).await?`: an Err of the exchange is returned from chat at once
OnUpstreamError == "failed"

\* (mutant) an absent reasoning content counts as an empty reasoning text
FirstReasoningDefaultsEmpty(response) ==
    IF response.choices = <<>> THEN Some(<<>>)
    ELSE IF IsSome(response.choices[1].reasoning_content)
         THEN response.choices[1].reasoning_content
         ELSE Some(<<>>)

\* deepseek_response.choices.first().and_then(|c| c.message.reasoning_content.as_ref())
FirstReasoning(response) ==
    IF response.choices = <<>> THEN None ELSE response.choices[1].reasoning_content

MissingContent ==
    ApiError("DeepSeekError", "missing_content", <<"No reasoning content in response">>)

\* the reasoning-provider call and the extraction of its reasoning content
ChatDeepSeek ==
    /\ pc = "chat_deepseek"
    /\ IF ~req.deepseek_config.headers_ok
       THEN /\ result' = Some(Err(HeaderError))
            /\ pc' = "failed"
            /\ UNCHANGED <<upstream, cur, complete_reasoning, anthropic_messages>>
       ELSE \E o \in ExchangeOutcomes(DsResponses) :
            IF o.t # "ok"
            THEN /\ upstream' = Append(upstream, Up("deepseek", "request"))
                 /\ result' = Some(Err(ApiError("DeepSeekError", o.t, ExchangeMessage(o.t))))
                 /\ pc' = OnUpstreamError
                 /\ UNCHANGED <<cur, complete_reasoning, anthropic_messages>>
            ELSE /\ upstream' = upstream \o <<Up("deepseek", "request"),
                                              Up("deepseek", "response")>>
                 /\ IF ~IsSome(FirstReasoning(o.response))
                    THEN /\ cur' = Some(o.response)
                         /\ result' = Some(Err(MissingContent))
                         /\ pc' = "failed"
                         /\ UNCHANGED <<complete_reasoning, anthropic_messages>>
                    ELSE /\ cur' = Some(o.response)
                         /\ complete_reasoning' = Unwrap(FirstReasoning(o.response))
                         /\ anthropic_messages' =
                                Some(Stage2Messages(get_messages_with_system(req),
                                                    Unwrap(FirstReasoning(o.response))))
                         /\ pc' = "chat_anthropic"
                         /\ UNCHANGED result
    /\ UNCHANGED <<pair, call, parser, req, warmup, limits, chan, rxOpen, produced, received, sendFailed,
                   deepseek_stream, anthropic_stream, deepseek_usage, ds_items, an_items>>

\* the ApiResponse of the non-streaming path
BuildResponse(thinking_content, deepseek_response, anthropic_response) ==
    LET du == deepseek_response.usage
        au == anthropic_response.usage
        deepseek_cost == calculate_deepseek_cost(du.prompt_tokens, du.completion_tokens,
                                                 du.reasoning_tokens, du.cached_tokens)
        anthropic_cost == calculate_anthropic_cost(anthropic_response.model,
                              au.input_tokens, au.output_tokens,
                              au.cache_creation_input_tokens, au.cache_read_input_tokens)
    IN  [content |-> <<ContentBlock("text", thinking_content)>>
                        \o BlocksFromAnthropic(anthropic_response.content),
         combined_usage |->
            [total_cost |-> format_cost(AddCost(deepseek_cost, anthropic_cost)),
             deepseek_usage |->
                [input_tokens |-> du.prompt_tokens,
                 output_tokens |-> du.completion_tokens,
                 reasoning_tokens |-> du.reasoning_tokens,
                 cached_input_tokens |-> du.cached_tokens,
                 total_tokens |-> du.total_tokens,
                 total_cost |-> format_cost(deepseek_cost)],
             anthropic_usage |->
                [input_tokens |-> au.input_tokens,
                 output_tokens |-> au.output_tokens,
                 cached_write_tokens |-> au.cache_creation_input_tokens,
                 cached_read_tokens |-> au.cache_read_input_tokens,
                 total_tokens |-> au.input_tokens + au.output_tokens,
                 total_cost |-> format_cost(anthropic_cost)]]]

\* the response-provider call and the combined result
ChatAnthropic ==
    /\ pc = "chat_anthropic"
    /\ IF ~req.anthropic_config.headers_ok
       THEN /\ result' = Some(Err(HeaderError))
            /\ pc' = "failed"
            /\ UNCHANGED <<upstream, an_items>>
       ELSE \E o \in ExchangeOutcomes(AnResponses) :
            IF o.t # "ok"
            THEN /\ upstream' = Append(upstream, Up("anthropic", "request"))
                 /\ result' = Some(Err(ApiError("AnthropicError", o.t, ExchangeMessage(o.t))))
                 /\ pc' = OnUpstreamError
                 /\ UNCHANGED an_items
            ELSE /\ upstream' = upstream \o <<Up("anthropic", "request"),
                                              Up("anthropic", "response")>>
                 /\ an_items' = <<[kind |-> "response", message |-> o.response]>>
                 /\ result' = Some(Ok(BuildResponse(ThinkingBlock(complete_reasoning),
                                                    Unwrap(cur), o.response)))
                 /\ pc' = "responded"
    /\ UNCHANGED <<pair, call, parser, req, warmup, limits, chan, rxOpen, produced, received, sendFailed,
                   deepseek_stream, anthropic_stream, deepseek_usage, complete_reasoning,
                   anthropic_messages, cur, ds_items>>

\* ------------------------------------------ the clients' read loops, byte level
\* A byte stream is a sequence of units: the newline byte, the two bytes 0xC3
\* 0xA9 of the character e-acute, and ASCII runs the loop only ever handles whole
\* ("data: ", "event: " with the event name, the JSON punctuation and letters).
\* A cut inside an ASCII run acts as the cut before it: the run reaches the
\* buffer completely before any delimiter that follows it.
Replacement == "U+FFFD"
EAcute == "U+00E9"

RECURSIVE from_utf8_lossy(_)
\* String::from_utf8_lossy(&chunk): a lead byte without its continuation byte in
\* the same chunk, and a continuation byte without its lead byte, each become U+FFFD
from_utf8_lossy(bytes) ==
    IF bytes = <<>> THEN <<>>
    ELSE IF bytes[1] = "C3" /\ Len(bytes) >= 2 /\ bytes[2] = "A9"
         THEN <<EAcute>> \o from_utf8_lossy(SubSeq(bytes, 3, Len(bytes)))
    ELSE IF bytes[1] \in {"C3", "A9"}
         THEN <<Replacement>> \o from_utf8_lossy(Tail(bytes))
    ELSE <<bytes[1]>> \o from_utf8_lossy(Tail(bytes))

\* data.find("\n\n"): the index of the first blank-line delimiter, 0 for None
FindDelimiter(data) ==
    LET hits == {i \in 1..(Len(data) - 1) : data[i] = "\n" /\ data[i + 1] = "\n"}
    IN  IF hits = {} THEN 0 ELSE CHOOSE i \in hits : \A j \in hits : i <= j

IsWhitespace(c) == c \in {"\n", " "}

RECURSIVE trim_start(_)
trim_start(str) ==
    IF str # <<>> /\ IsWhitespace(str[1]) THEN trim_start(Tail(str)) ELSE str

RECURSIVE trim_end(_)
trim_end(str) ==
    IF str # <<>> /\ IsWhitespace(str[Len(str)])
    THEN trim_end(SubSeq(str, 1, Len(str) - 1)) ELSE str

\* str::trim
trim(str) == trim_end(trim_start(str))

\* str::starts_with
starts_with(str, prefix) == str # <<>> /\ str[1] = prefix

\* str.lines().nth(1): the second line, None when there is no second line
SecondLine(str) ==
    LET breaks == {i \in 1..Len(str) : str[i] = "\n"}
    IN  IF breaks = {} THEN None
        ELSE LET first == CHOOSE i \in breaks : \A j \in breaks : i <= j
                 later == {i \in breaks : i > first}
                 stop == IF later = {} THEN Len(str) + 1
                         ELSE CHOOSE i \in later : \A j \in later : i <= j
             IN  IF first = Len(str) THEN None
                 ELSE Some(SubSeq(str, first + 1, stop - 1))

\* the characters a decodable payload's text may hold
TextChars == {"a", EAcute, Replacement}

\* serde_json::from_str of a payload: an object whose text decodes, or Err
from_str(json_data) ==
    IF /\ Len(json_data) >= 2
       /\ json_data[1] = "{"
       /\ json_data[Len(json_data)] = "}"
       /\ \A i \in 2..(Len(json_data) - 1) : json_data[i] \in TextChars
    THEN Some([text |-> SubSeq(json_data, 2, Len(json_data) - 1)])
    ELSE None

\* the body of deepseek's inner loop for one frame: the events it yields
DeepSeekFrame(frame) ==
    LET line == trim(frame)
    IN  IF starts_with(line, "data: ") THEN from_str(Tail(line)) ELSE <<>>

\* the body of anthropic's inner loop for one frame: the events it yields
AnthropicFrame(event_data) ==
    IF ~starts_with(event_data, "event: ") THEN <<>>
    ELSE LET data_line == SecondLine(event_data)
         IN  IF IsSome(data_line) /\ starts_with(Unwrap(data_line), "data: ")
             THEN from_str(Tail(Unwrap(data_line)))
             ELSE <<>>

(* mutant: only the first newline of the delimiter is skipped *)
RestAfterFrameKeepsNewline(yielded, data, end) == SubSeq(data, end + 1, Len(data))

(* mutant: an undecodable frame discards what is buffered behind it *)
RestAfterFrameDropsOnJunk(yielded, data, end) ==
    IF yielded = <<>> THEN <<>> ELSE SubSeq(data, end + 2, Len(data))

\* start = end + 2: what is left of the buffer behind a frame
RestAfterFrame(yielded, data, end) == SubSeq(data, end + 2, Len(data))

RECURSIVE ParseBuffer(_, _)
\* `while let Some(end) = data[start..].find("\n\n")`, then data = data[start..]:
\* the events yielded and the buffer retained
ParseBuffer(provider, data) ==
    LET end == FindDelimiter(data)
    IN  IF end = 0 THEN [events |-> <<>>, data |-> data]
        ELSE LET frame == SubSeq(data, 1, end - 1)
                 yielded == IF provider = "deepseek" THEN DeepSeekFrame(frame)
                            ELSE AnthropicFrame(frame)
                 rest == ParseBuffer(provider, RestAfterFrame(yielded, data, end))
             IN  [events |-> yielded \o rest.events, data |-> rest.data]

\* frames the providers may send: the bytes before the blank line, and the
\* event a well-formed one carries (None for a malformed one)
Frame(bytes, event) == [bytes |-> bytes, event |-> event]

DeepSeekFrames ==
    { Frame(<<"data: ", "{", "a", "}">>, Some([text |-> <<"a">>])),
      Frame(<<"data: ", "{", "a", "C3", "A9", "}">>, Some([text |-> <<"a", EAcute>>])),
      Frame(<<":">>, None),
      Frame(<<"data: ", "{", "a">>, None),
      Frame(<<"data: ", "{", "?", "}">>, None),
      Frame(<<"data: ", "[DONE]">>, None),
      Frame(<<" ">>, None) }

AnthropicFrames ==
    { Frame(<<"event: ", "\n", "data: ", "{", "a", "}">>, Some([text |-> <<"a">>])),
      Frame(<<"event: ", "\n", "data: ", "{", "C3", "A9", "}">>, Some([text |-> <<EAcute>>])),
      Frame(<<":">>, None),
      Frame(<<"event: ", "\n", "data: ", "{", "a">>, None),
      Frame(<<"event: ", "\n", "data: ", "{", "?", "}">>, None),
      Frame(<<"data: ", "{", "a", "}">>, None),
      Frame(<<"event: ">>, None) }

FramesOf(provider) == IF provider = "deepseek" THEN DeepSeekFrames ELSE AnthropicFrames

RECURSIVE Wire(_)
\* the bytes of a sequence of frames, each closed by a blank line
Wire(frames) ==
    IF frames = <<>> THEN <<>>
    ELSE Head(frames).bytes \o <<"\n", "\n">> \o Wire(Tail(frames))

\* the read loop before its first read, for every provider and every stream of
\* at most MaxFrames frames
ParserInits ==
    UNION { { [provider |-> provider, frames |-> frames, pending |-> Wire(frames),
               data |-> <<>>, events |-> <<>>, torn |-> FALSE, ended |-> FALSE] :
                frames \in UNION {[1..n -> FramesOf(provider)] : n \in 0..MaxFrames} } :
            provider \in {"deepseek", "anthropic"} }

\* the chunk boundary falls between the two bytes of a character
TearsCharacter(chunk, rest) ==
    /\ chunk # <<>> /\ chunk[Len(chunk)] = "C3"
    /\ rest # <<>> /\ rest[1] = "A9"

\* stream.next().await yields a chunk of any size: it is appended to the
\* buffer, the complete frames are decoded and the tail is retained
ParserChunk ==
    /\ parser.provider # "none"
    /\ ~parser.ended
    /\ \E n \in 1..Len(parser.pending) :
         LET chunk == SubSeq(parser.pending, 1, n)
             rest == SubSeq(parser.pending, n + 1, Len(parser.pending))
             parsed == ParseBuffer(parser.provider, parser.data \o from_utf8_lossy(chunk))
         IN  parser' = [parser EXCEPT !.pending = rest,
                                      !.data = parsed.data,
                                      !.events = @ \o parsed.events,
                                      !.torn = @ \/ TearsCharacter(chunk, rest)]
    /\ UNCHANGED <<pair, call, req, warmup, limits, pc, result, upstream, chan, rxOpen, produced, received,
                   sendFailed, deepseek_stream, anthropic_stream, deepseek_usage,
                   complete_reasoning, anthropic_messages, cur, ds_items, an_items>>

(* mutant: what is left in the buffer is decoded as a last frame *)
AtEndOfStreamFlushes(provider, data) ==
    ParseBuffer(provider, data \o <<"\n", "\n">>).events

\* the outer `while let Some(chunk)` is left on None and nothing follows it:
\* the events yielded for what the buffer still holds
AtEndOfStream(provider, data) == <<>>

\* stream.next().await yields None: the generator ends
ParserEnd ==
    /\ parser.provider # "none"
    /\ ~parser.ended
    /\ parser.pending = <<>>
    /\ parser' = [parser EXCEPT !.ended = TRUE,
                                !.events = @ \o AtEndOfStream(parser.provider, parser.data)]
    /\ UNCHANGED <<pair, call, req, warmup, limits, pc, result, upstream, chan, rxOpen, produced, received,
                   sendFailed, deepseek_stream, anthropic_stream, deepseek_usage,
                   complete_reasoning, anthropic_messages, cur, ds_items, an_items>>

InitParse ==
    /\ InitWith({Request(TRUE, None, <<UserMsg>>, TRUE, TRUE, TRUE)}, 0, {[ds |-> 0, an |-> 0]}) /\ pair = NoPair
    /\ parser \in ParserInits
    /\ call = NoCall

NextParse ==
    \/ ParserChunk
    \/ ParserEnd

SpecParse == InitParse /\ [][NextParse]_vars

\* frames of single-byte characters
TailFrames(provider) ==
    {f \in FramesOf(provider) : \A i \in 1..Len(f.bytes) : f.bytes[i] # "C3"}

\* what a stream may end with behind its last blank line: a frame that is not
\* closed, or closed by a single newline
Tails(provider) ==
    UNION { {f.bytes, f.bytes \o <<"\n">>} : f \in TailFrames(provider) }

\* the read loop before its first read, for every provider and every stream of
\* at most MaxTailFrames closed frames followed by a final frame left open
TailInits ==
    UNION { { [provider |-> provider, frames |-> frames, tail |-> tail,
               pending |-> Wire(frames) \o tail,
               data |-> <<>>, events |-> <<>>, torn |-> FALSE, ended |-> FALSE] :
                frames \in UNION {[1..n -> TailFrames(provider)] : n \in 0..MaxTailFrames},
                tail \in Tails(provider) } :
            provider \in {"deepseek", "anthropic"} }

InitTail ==
    /\ InitWith({Request(TRUE, None, <<UserMsg>>, TRUE, TRUE, TRUE)}, 0, {[ds |-> 0, an |-> 0]}) /\ pair = NoPair
    /\ parser \in TailInits
    /\ call = NoCall

SpecTail == InitTail /\ [][NextParse]_vars

\* ------------------------------------------- the cost functions, on their own
\* token counts the cost functions are called with, in units: none, one unit,
\* and the multiples of a fifth of a million up to MaxTokenSteps fifths
TokenCounts == {0, 1} \cup {k * (PerMillion \div 5) : k \in 1..MaxTokenSteps}

\* model identifiers: one per family, one of no priced family, and identifiers
\* in which the substrings of two families both occur
CostModels ==
    { SonnetModel, HaikuModel, OpusModel, <<"claude-3-haiku", "-20240307">>,
      <<"claude-3-5-haiku", "+", "claude-3-5-sonnet">>,
      <<"claude-3-opus", "+", "claude-3-5-sonnet">>,
      <<"claude-3-opus", "+", "claude-3-5-haiku">> }

CostCall(fn, args) ==
    [fn |-> fn, args |-> args, outcome |-> "called", cost |-> ZeroCost,
     total_cost |-> ZeroCostLiteral]

CostingInits ==
    { CostCall("calculate_deepseek_cost",
               [input_tokens |-> i, output_tokens |-> o, reasoning_tokens |-> r,
                cached_tokens |-> c]) :
        i \in TokenCounts, o \in TokenCounts, r \in {0, PerMillion}, c \in TokenCounts }
    \cup
    { CostCall("calculate_anthropic_cost",
               [model |-> m, input_tokens |-> i, output_tokens |-> o,
                cache_write_tokens |-> w, cache_read_tokens |-> r]) :
        m \in CostModels, i \in TokenCounts, o \in TokenCounts,
        w \in TokenCounts, r \in TokenCounts }

OtherVars ==
    <<pair, parser, req, warmup, limits, pc, result, upstream, chan, rxOpen, produced, received,
      sendFailed, deepseek_stream, anthropic_stream, deepseek_usage, complete_reasoning,
      anthropic_messages, cur, ds_items, an_items>>

\* calculate_deepseek_cost returns; format_cost renders what it returned
CalculateDeepSeekCost ==
    /\ call.fn = "calculate_deepseek_cost"
    /\ call.outcome = "called"
    /\ LET a == call.args
           cost == calculate_deepseek_cost(a.input_tokens, a.output_tokens,
                                           a.reasoning_tokens, a.cached_tokens)
       IN  call' = [call EXCEPT !.outcome = "returned", !.cost = cost,
                                      !.total_cost = format_cost(cost)]
    /\ UNCHANGED OtherVars

\* input_tokens - cached_tokens in a build with overflow checks: the
\* subtraction panics when cached_tokens exceeds input_tokens
CalculateDeepSeekCostOverflow ==
    /\ call.fn = "calculate_deepseek_cost"
    /\ call.outcome = "called"
    /\ call.args.input_tokens < call.args.cached_tokens
    /\ call' = [call EXCEPT !.outcome = "panicked"]
    /\ UNCHANGED OtherVars

\* calculate_anthropic_cost returns; format_cost renders what it returned
CalculateAnthropicCost ==
    /\ call.fn = "calculate_anthropic_cost"
    /\ call.outcome = "called"
    /\ LET a == call.args
           cost == calculate_anthropic_cost(a.model, a.input_tokens, a.output_tokens,
                                            a.cache_write_tokens, a.cache_read_tokens)
       IN  call' = [call EXCEPT !.outcome = "returned", !.cost = cost,
                                      !.total_cost = format_cost(cost)]
    /\ UNCHANGED OtherVars

InitCost ==
    /\ InitWith({Request(TRUE, None, <<UserMsg>>, TRUE, TRUE, TRUE)}, 0, {[ds |-> 0, an |-> 0]}) /\ pair = NoPair
    /\ parser = NoParser
    /\ call \in CostingInits

NextCost ==
    \/ CalculateDeepSeekCost
    \/ CalculateDeepSeekCostOverflow
    \/ CalculateAnthropicCost

SpecCost == InitCost /\ [][NextCost]_vars

\* --------------------------------------- the clients' requests, on their own
\* the message lists a client is called with
BuildMessages == UNION {[1..n -> {SysMsg, UserMsg, AsstMsg}] : n \in 0..MaxMessages}

\* a body-override map holding every key the caller may set, with values that
\* differ from the orchestrator's and from the defaults
FullBody(stream) ==
    [stream |-> stream,
     messages |-> <<Message("user", <<"injected">>)>>,
     system |-> <<"injected">>,
     model |-> OpusModel,
     max_tokens |-> 1,
     top_p |-> 1]

\* the caller's body-override maps: every choice of keys, the empty map included
BodyOverrides ==
    { json_remove(FullBody(stream), absent) :
        stream \in BOOLEAN, absent \in SUBSET DOMAIN FullBody(TRUE) }

ClientCall(fn, messages, system, body) ==
    [fn |-> fn, messages |-> messages, system |-> system,
     config |-> [headers_ok |-> TRUE, body |-> body], outcome |-> "called",
     request |-> NullBody]

BuildInits ==
    { ClientCall(fn, messages, None, body) :
        fn \in {"DeepSeekClient::chat", "DeepSeekClient::chat_stream"},
        messages \in BuildMessages, body \in BodyOverrides }
    \cup
    { ClientCall(fn, messages, system, body) :
        fn \in {"AnthropicClient::chat", "AnthropicClient::chat_stream"},
        messages \in BuildMessages, system \in {None, Some(<<"s">>)},
        body \in BodyOverrides }

\* DeepSeekClient::chat builds and posts its request
DeepSeekClientChat ==
    /\ call.fn = "DeepSeekClient::chat"
    /\ call.outcome = "called"
    /\ call' = [call EXCEPT !.outcome = "sent",
                            !.request = deepseek_build_request(call.messages, FALSE,
                                                               call.config)]
    /\ UNCHANGED OtherVars

\* DeepSeekClient::chat_stream builds and posts its request
DeepSeekClientChatStream ==
    /\ call.fn = "DeepSeekClient::chat_stream"
    /\ call.outcome = "called"
    /\ call' = [call EXCEPT !.outcome = "sent",
                            !.request = deepseek_build_request(call.messages, TRUE,
                                                               call.config)]
    /\ UNCHANGED OtherVars

\* AnthropicClient::chat builds and posts its request
AnthropicClientChat ==
    /\ call.fn = "AnthropicClient::chat"
    /\ call.outcome = "called"
    /\ call' = [call EXCEPT !.outcome = "sent",
                            !.request = anthropic_build_request(call.messages, call.system,
                                                                FALSE, call.config)]
    /\ UNCHANGED OtherVars

\* AnthropicClient::chat_stream builds and posts its request
AnthropicClientChatStream ==
    /\ call.fn = "AnthropicClient::chat_stream"
    /\ call.outcome = "called"
    /\ call' = [call EXCEPT !.outcome = "sent",
                            !.request = anthropic_build_request(call.messages, call.system,
                                                                TRUE, call.config)]
    /\ UNCHANGED OtherVars

InitBuild ==
    /\ InitWith({Request(TRUE, None, <<UserMsg>>, TRUE, TRUE, TRUE)}, 0, {[ds |-> 0, an |-> 0]}) /\ pair = NoPair
    /\ parser = NoParser
    /\ call \in BuildInits

NextBuild ==
    \/ DeepSeekClientChat
    \/ DeepSeekClientChatStream
    \/ AnthropicClientChat
    \/ AnthropicClientChatStream

SpecBuild == InitBuild /\ [][NextBuild]_vars

\* ------------------------------------------- two requests at the same time
\* every variable of the single-request model
RequestVars ==
    <<call, parser, req, warmup, limits, pc, result, upstream, chan, rxOpen, produced, received,
      sendFailed, deepseek_stream, anthropic_stream, deepseek_usage, complete_reasoning,
      anthropic_messages, cur, ds_items, an_items>>

PairIds == {1, 2}

\* what tells the upstream data of one request from the other's
Tag(r) == IF r = 1 THEN "r1" ELSE "r2"
PairDsUsage(r) == IF r = 1 THEN DsUsageA ELSE DsUsageB
PairAnUsage(r) == IF r = 1 THEN AnUsageA ELSE AnUsageB

\* the reasoning body request r is answered with: two deltas, then the sentinel
PairDsBody(r) ==
    << <<DsFrame(<<DsDelta(Some(<<Tag(r)>>))>>, None)>>,
       <<DsFrame(<<DsDelta(Some(<<"b", Tag(r)>>))>>, Some(PairDsUsage(r))),
         DsFrame(<<DsDelta(None)>>, None)>> >>

\* the response body request r is answered with: a delta and a usage report
PairAnBody(r) ==
    << <<ContentBlockDelta("text_delta", <<Tag(r), "y">>),
         MessageDelta(Some(PairAnUsage(r)))>> >>

\* the locals of one call of chat_stream and of the task it spawns
PairTask(r) ==
    [pc |-> "handle_chat",
     deepseek_stream |-> [pending |-> PairDsBody(r), buf |-> <<>>],
     anthropic_stream |-> [pending |-> PairAnBody(r), buf |-> <<>>],
     deepseek_usage |-> None,
     complete_reasoning |-> <<>>,
     anthropic_messages |-> None,
     cur |-> None,
     produced |-> <<>>]

PairInit ==
    [tasks |-> [r \in PairIds |-> PairTask(r)],
     chans |-> [c \in PairIds |-> <<>>],
     rxOpen |-> [c \in PairIds |-> TRUE],
     received |-> [r \in PairIds |-> <<>>]]

(* mutant: one channel serves every request *)
ChannelOfShared(r) == 1

\* let (tx, rx) = tokio::sync::mpsc::channel(100): each call makes its own
ChannelOf(r) == r

\* the task of request r moves on without sending
PairStep(r, task) ==
    /\ pair' = [pair EXCEPT !.tasks[r] = task]
    /\ UNCHANGED RequestVars

\* let _ = tx.send(..).await in the task of request r
PairSend(r, ev, task) ==
    LET c == ChannelOf(r)
    IN  /\ pair.rxOpen[c] => Len(pair.chans[c]) < ChannelCapacity
        /\ pair' = [pair EXCEPT
                      !.tasks[r] = [task EXCEPT !.produced = Append(@, ev)],
                      !.chans[c] = IF pair.rxOpen[c]
                                   THEN ChanPush(@, [ev |-> ev, from |-> r])
                                   ELSE @]
        /\ UNCHANGED RequestVars

PairChatStream(r) ==
    LET task == pair.tasks[r]
    IN  /\ task.pc = "handle_chat"
        /\ PairStep(r, [task EXCEPT !.pc = "send_start"])

PairSendStart(r) ==
    LET task == pair.tasks[r]
    IN  /\ task.pc = "send_start"
        /\ PairSend(r, StartEvent, [task EXCEPT !.pc = "send_open_tag"])

PairSendOpenTag(r) ==
    LET task == pair.tasks[r]
    IN  /\ task.pc = "send_open_tag"
        /\ PairSend(r, ContentEvent(<<ContentBlock("text", ThinkOpen)>>),
                    [task EXCEPT !.pc = "ds_next"])

PairDsRead(r) ==
    LET task == pair.tasks[r]
        stream == task.deepseek_stream
    IN  /\ task.pc = "ds_next"
        /\ stream.buf = <<>>
        /\ IF stream.pending = <<>>
           THEN PairStep(r, [task EXCEPT !.pc = "send_close_tag"])
           ELSE PairStep(r, [task EXCEPT
                               !.deepseek_stream.buf = DecodeFrames(Head(stream.pending)),
                               !.deepseek_stream.pending = Tail(@)])

PairDsItem(r) ==
    LET task == pair.tasks[r]
        stream == task.deepseek_stream
    IN  /\ task.pc = "ds_next"
        /\ stream.buf # <<>>
        /\ LET response == Head(stream.buf)
               taken == [task EXCEPT !.deepseek_stream.buf = Tail(@)]
           IN  IF DsItemKind(response) = "break"
               THEN PairStep(r, [taken EXCEPT !.pc = "send_close_tag"])
               ELSE IF DsItemKind(response) = "delta"
               THEN PairStep(r, [taken EXCEPT !.cur = Some(response),
                                              !.pc = "send_ds_delta"])
               ELSE PairStep(r, [taken EXCEPT
                                   !.deepseek_usage = StoreUsage(@, response)])

PairSendDsDelta(r) ==
    LET task == pair.tasks[r]
    IN  /\ task.pc = "send_ds_delta"
        /\ LET response == Unwrap(task.cur)
               reasoning == Unwrap(response.choices[1].reasoning_content)
           IN  PairSend(r, ContentEvent(<<ContentBlock("text_delta", reasoning)>>),
                        [task EXCEPT !.complete_reasoning = Accumulate(@, reasoning),
                                     !.deepseek_usage = StoreUsage(@, response),
                                     !.cur = None,
                                     !.pc = "ds_next"])

PairSendCloseTag(r) ==
    LET task == pair.tasks[r]
    IN  /\ task.pc = "send_close_tag"
        /\ PairSend(r, ContentEvent(<<ContentBlock("text", ThinkClose)>>),
                    [task EXCEPT
                       !.anthropic_messages =
                           Some(Stage2Messages(<<UserMsg>>, task.complete_reasoning)),
                       !.pc = "an_next"])

PairAnRead(r) ==
    LET task == pair.tasks[r]
        stream == task.anthropic_stream
    IN  /\ task.pc = "an_next"
        /\ stream.buf = <<>>
        /\ IF stream.pending = <<>>
           THEN PairStep(r, [task EXCEPT !.pc = "send_done"])
           ELSE PairStep(r, [task EXCEPT
                               !.anthropic_stream.buf = DecodeFrames(Head(stream.pending)),
                               !.anthropic_stream.pending = Tail(@)])

PairAnItem(r) ==
    LET task == pair.tasks[r]
        stream == task.anthropic_stream
    IN  /\ task.pc = "an_next"
        /\ stream.buf # <<>>
        /\ LET event == Head(stream.buf)
               taken == [task EXCEPT !.anthropic_stream.buf = Tail(@)]
           IN  IF AnSendSite(event) # ""
               THEN PairStep(r, [taken EXCEPT !.cur = Some(event),
                                              !.pc = AnSendSite(event)])
               ELSE PairStep(r, taken)

PairSendAnDelta(r) ==
    LET task == pair.tasks[r]
    IN  /\ task.pc = "send_an_delta"
        /\ PairSend(r, ContentEvent(<<DeltaBlock(Unwrap(task.cur).delta)>>),
                    [task EXCEPT !.cur = None, !.pc = "an_next"])

PairSendUsage(r) ==
    LET task == pair.tasks[r]
    IN  /\ task.pc = "send_usage"
        /\ PairSend(r, UsageEvent(StreamCombinedUsage(Unwrap(Unwrap(task.cur).usage),
                                                      task.deepseek_usage)),
                    [task EXCEPT !.cur = None, !.pc = "an_next"])

PairSendDone(r) ==
    LET task == pair.tasks[r]
    IN  /\ task.pc = "send_done"
        /\ PairSend(r, DoneEvent, [task EXCEPT !.pc = "returned"])

\* the SSE body of request r polls the rx its call returned
PairConsumerRecv(r) ==
    LET c == ChannelOf(r)
    IN  /\ pair.tasks[r].pc # "handle_chat"
        /\ pair.rxOpen[c]
        /\ pair.chans[c] # <<>>
        /\ pair' = [pair EXCEPT !.received[r] = Append(@, ChanFront(pair.chans[c])),
                                !.chans[c] = ChanPop(@)]
        /\ UNCHANGED RequestVars

\* the caller of request r disconnects
PairConsumerDrop(r) ==
    LET c == ChannelOf(r)
    IN  /\ pair.tasks[r].pc # "handle_chat"
        /\ pair.rxOpen[c]
        /\ pair' = [pair EXCEPT !.rxOpen[c] = FALSE, !.chans[c] = <<>>]
        /\ UNCHANGED RequestVars

InitPair ==
    /\ InitWith({Request(TRUE, None, <<UserMsg>>, TRUE, TRUE, TRUE)}, 0, {[ds |-> 0, an |-> 0]})
    /\ parser = NoParser
    /\ call = NoCall
    /\ pair = PairInit

\* the runtime runs the two handlers, their tasks and their consumers in any order
NextPair ==
    \/ \E r \in PairIds : PairChatStream(r)
    \/ \E r \in PairIds : PairSendStart(r)
    \/ \E r \in PairIds : PairSendOpenTag(r)
    \/ \E r \in PairIds : PairDsRead(r)
    \/ \E r \in PairIds : PairDsItem(r)
    \/ \E r \in PairIds : PairSendDsDelta(r)
    \/ \E r \in PairIds : PairSendCloseTag(r)
    \/ \E r \in PairIds : PairAnRead(r)
    \/ \E r \in PairIds : PairAnItem(r)
    \/ \E r \in PairIds : PairSendAnDelta(r)
    \/ \E r \in PairIds : PairSendUsage(r)
    \/ \E r \in PairIds : PairSendDone(r)
    \/ \E r \in PairIds : PairConsumerRecv(r)
    \/ \E r \in PairIds : PairConsumerDrop(r)

SpecPair == InitPair /\ [][NextPair]_vars

\* ------------------------------------------------------------ specification
Next ==
    \/ Chat
    \/ ChatDeepSeek
    \/ ChatAnthropic
    \/ ChatStream
    \/ SendStart
    \/ SendOpenTag
    \/ DsRequest
    \/ DsRead
    \/ DsItem
    \/ SendDsDelta
    \/ SendDsError
    \/ SendCloseTag
    \/ AnRequest
    \/ AnRead
    \/ AnItem
    \/ SendAnStart
    \/ SendAnDelta
    \/ SendUsage
    \/ SendAnError
    \/ SendDone
    \/ ConsumerRecv
    \/ ConsumerDrop

Spec == Init /\ [][Next]_vars

\* the back-pressure scenario: the reasoning body is LongLen one-frame delta
\* chunks and then ends, the response body has one chunk
InitLong == InitWith(Requests, LongLen, {[ds |-> 0, an |-> 1]}) /\ pair = NoPair /\ parser = NoParser /\ call = NoCall

SpecLong == InitLong /\ [][Next]_vars

\* one step of the spawned task: a send, or a poll of a provider stream that
\* the provider answers
TaskStep ==
    \/ SendStart
    \/ SendOpenTag
    \/ DsRequest
    \/ DsRead
    \/ DsItem
    \/ SendDsDelta
    \/ SendDsError
    \/ SendCloseTag
    \/ AnRequest
    \/ AnRead
    \/ AnItem
    \/ SendAnStart
    \/ SendAnDelta
    \/ SendUsage
    \/ SendAnError
    \/ SendDone

\* the runtime keeps scheduling the spawned task, both providers answer every
\* poll of their finite streams, and a connected consumer keeps reading
InitLive ==
    /\ InitWith(Requests, 0, {[ds |-> LiveReads, an |-> 1], [ds |-> 1, an |-> LiveReads]}) /\ pair = NoPair
    /\ parser = NoParser
    /\ call = NoCall

SpecLive == InitLive /\ [][Next]_vars /\ WF_vars(TaskStep) /\ WF_vars(ConsumerRecv)

\* the non-streaming handler alone, on every request of ChatRequests
InitChat == InitWith(ChatRequests, 0, {[ds |-> 0, an |-> 0]}) /\ pair = NoPair /\ parser = NoParser /\ call = NoCall

NextChat ==
    \/ Chat
    \/ ChatDeepSeek
    \/ ChatAnthropic

SpecChat == InitChat /\ [][NextChat]_vars

\* ================================================================ properties
ProducedEvents == [i \in 1..Len(produced) |-> produced[i].ev]
ProducedOfType(type) == {i \in 1..Len(produced) : produced[i].ev.type = type}
ProducedAt(site) == {i \in 1..Len(produced) : produced[i].site = site}
UpstreamOf(provider) == {i \in 1..Len(upstream) : upstream[i].provider = provider}

ReasoningSites == {"open_tag", "ds_delta", "close_tag"}
ResponseSites == {"an_start", "an_delta", "usage", "an_error", "done"}

\* some provider's event sequence has yielded an Err item
ErrYielded == deepseek_stream.conn = "failed" \/ anthropic_stream.conn = "failed"

RECURSIVE Concat(_)
\* the concatenation of a sequence of texts
Concat(texts) == IF texts = <<>> THEN <<>> ELSE Head(texts) \o Concat(Tail(texts))

\* the texts of the reasoning deltas emitted so far, in emission order
EmittedReasoning ==
    LET idx == SelectSeq([i \in 1..Len(produced) |-> i],
                         LAMBDA i : produced[i].site = "ds_delta")
    IN  [k \in 1..Len(idx) |-> produced[idx[k]].ev.content[1].text]

\* the full reasoning text stage 1 delivered
CapturedReasoning ==
    IF req.stream THEN Concat(EmittedReasoning) ELSE Unwrap(FirstReasoning(Unwrap(cur)))

\* C1: stage 2 is invoked only after stage 1's consumption has finished and its
\* full text has been captured into the synthesized assistant turn; no
\* interaction with the reasoning provider follows one with the response provider.
C1_StagesSequential ==
    /\ \A i \in UpstreamOf("anthropic") : \A j \in UpstreamOf("deepseek") : j < i
    /\ (anthropic_stream.conn # "none" \/ UpstreamOf("anthropic") # {}) =>
          /\ IsSome(anthropic_messages)
          /\ LET msgs == Unwrap(anthropic_messages)
             IN  msgs[Len(msgs)] = Message("assistant", ThinkingBlock(CapturedReasoning))
          /\ pc \notin {"ds_next", "send_ds_delta", "send_ds_error", "send_close_tag",
                        "chat_deepseek"}

C1_Witness ==
    /\ req.stream
    /\ pc = "returned"
    /\ deepseek_stream.conn = "open"
    /\ complete_reasoning = <<"a", "b">>
    /\ \E i \in UpstreamOf("anthropic") : upstream[i].op = "read"

\* C2: once a provider's stream has yielded Err, the task sends exactly one
\* error event, sends nothing after it and no done event, and after an Err of
\* the reasoning stage the response provider is never invoked.
C2_ErrorIsTerminal ==
    /\ Cardinality(ProducedOfType("error")) <= 1
    /\ \A i \in ProducedOfType("error") : i = Len(produced)
    /\ ErrYielded =>
          /\ ProducedOfType("done") = {}
          /\ \/ pc \in {"send_ds_error", "send_an_error"} /\ ProducedOfType("error") = {}
             \/ pc = "returned" /\ ProducedOfType("error") = {Len(produced)}
    /\ ProducedOfType("error") # {} => ErrYielded
    /\ deepseek_stream.conn = "failed" =>
          /\ UpstreamOf("anthropic") = {}
          /\ anthropic_stream = NoStream
          /\ anthropic_messages = None

C2_Witness ==
    /\ pc = "returned"
    /\ deepseek_stream.conn = "failed"
    /\ ProducedAt("ds_delta") # {}
    /\ produced[Len(produced)].ev.type = "error"

\* C4: a run in which no provider yields Err sends start first and done last,
\* each once; nothing is ever sent after done, and done and error never both occur.
C4_StartFirstDoneLast ==
    /\ \A i \in ProducedOfType("start") : i = 1
    /\ produced # <<>> => produced[1].ev = StartEvent
    /\ \A i \in ProducedOfType("done") : i = Len(produced)
    /\ ProducedOfType("done") = {} \/ ProducedOfType("error") = {}
    /\ (pc = "returned" /\ ~ErrYielded) =>
          /\ Len(produced) >= 2
          /\ produced[Len(produced)].ev = DoneEvent
    /\ ProducedOfType("done") # {} => pc = "returned"

C4_Witness ==
    /\ pc = "returned"
    /\ ~ErrYielded
    /\ ProducedAt("an_delta") # {}
    /\ produced[Len(produced)].ev = DoneEvent

\* C3 (as claimed): a run in which a provider answered the streaming request
\* with a non-success status ends with an error event and without done, and a
\* failing reasoning provider keeps the response provider from being invoked.
C3_NonSuccessStatusIsError ==
    (pc = "returned" /\ (deepseek_stream.status = 500 \/ anthropic_stream.status = 500)) =>
        /\ produced[Len(produced)].ev.type = "error"
        /\ ProducedOfType("done") = {}
        /\ deepseek_stream.status = 500 => UpstreamOf("anthropic") = {}

IsNonEmptyDelta(response) ==
    /\ response.choices # <<>>
    /\ IsSome(response.choices[1].reasoning_content)
    /\ Unwrap(response.choices[1].reasoning_content) # <<>>

IsSentinel(response) ==
    response.choices # <<>> /\ response.choices[1].reasoning_content = None

\* the reasoning stream has delivered its sentinel chunk
SentinelSeen == ds_items # <<>> /\ IsSentinel(ds_items[Len(ds_items)])

\* the texts of the non-empty reasoning deltas the stream delivered, in arrival order
ArrivedDeltas ==
    LET d == SelectSeq(ds_items, IsNonEmptyDelta)
    IN  [k \in 1..Len(d) |-> Unwrap(d[k].choices[1].reasoning_content)]

\* C5: when the reasoning stream has delivered deltas and then the sentinel, the
\* events sent are start, the opening tag, one text_delta content event per
\* non-empty delta in arrival order, nothing for the sentinel, then the closing
\* tag, and every response-stage event comes after the closing tag.
C5_ReasoningThenSentinel ==
    SentinelSeen =>
        LET n == Len(ArrivedDeltas)
            head == <<StartEvent, ContentEvent(<<ContentBlock("text", ThinkOpen)>>)>>
                      \o [k \in 1..n |->
                            ContentEvent(<<ContentBlock("text_delta", ArrivedDeltas[k])>>)]
        IN  /\ Len(produced) >= n + 2
            /\ SubSeq(ProducedEvents, 1, n + 2) = head
            /\ \A k \in 1..n : produced[k + 2].site = "ds_delta"
            /\ IF pc = "send_close_tag"
               THEN Len(produced) = n + 2
               ELSE /\ Len(produced) >= n + 3
                    /\ produced[n + 3] =
                          [ev |-> ContentEvent(<<ContentBlock("text", ThinkClose)>>),
                           site |-> "close_tag"]
                    /\ \A i \in (n + 4)..Len(produced) : produced[i].site \in ResponseSites

C5_Witness ==
    /\ SentinelSeen
    /\ ArrivedDeltas = << <<"a">>, <<"b">> >>
    /\ ProducedAt("an_delta") # {}
    /\ pc = "returned"

\* C6 (as claimed): once a channel write has failed because the consumer dropped
\* its read side, the task issues no further upstream request or read: no read
\* of either stream and no stage-2 request.
C6_StopsAfterFailedWrite == [][sendFailed => upstream' = upstream]_vars

\* C7: under every interleaving the events the consumer has received are a
\* prefix of the events the task has produced, and while the consumer is
\* connected the received events followed by the buffered ones are exactly the
\* produced ones: no reordering, duplication or loss.
C7_ReceivedIsPrefix ==
    /\ Len(received) <= Len(produced)
    /\ \A i \in 1..Len(received) : received[i] = produced[i].ev
    /\ rxOpen => received \o chan = ProducedEvents

C7_Witness ==
    /\ rxOpen
    /\ Len(received) >= 3
    /\ Len(chan) >= 2
    /\ Len(received) + Len(chan) = Len(produced)
    /\ ProducedAt("an_delta") # {}

\* the task is suspended in a tx.send(..).await
AtSend ==
    pc \in {"send_start", "send_open_tag", "send_ds_delta", "send_ds_error", "send_close_tag",
            "send_an_start", "send_an_delta", "send_usage", "send_an_error", "send_done"}

\* C8: the channel never holds more than its capacity of undelivered events;
\* while it is full and the consumer is connected the task stays at its write,
\* producing nothing and touching no upstream stream, and every event produced
\* for a connected consumer is either received or still buffered.
C8_BoundedBlocking ==
    /\ [](Len(chan) <= ChannelCapacity)
    /\ [](rxOpen => Len(received) + Len(chan) = Len(produced))
    /\ [][(rxOpen /\ Len(chan) = ChannelCapacity /\ AtSend) =>
              (pc' = pc /\ upstream' = upstream /\ produced' = produced)]_vars

C8_Witness ==
    /\ rxOpen
    /\ Len(chan) = ChannelCapacity
    /\ pc = "send_ds_delta"
    /\ received = <<>>

\* the positions in `produced` of the events of the reasoning stage
ReasoningContentSent == {i \in 1..Len(produced) : produced[i].site \in ReasoningSites}

\* C9 (as claimed): a request produces at most one usage event, whatever the
\* response provider sends, and the usage event follows every reasoning-stage
\* content event.
C9_AtMostOneUsage ==
    /\ Cardinality(ProducedOfType("usage")) <= 1
    /\ \A i \in ProducedOfType("usage") : \A j \in ReasoningContentSent : j < i

\* the usage-bearing events the response stream has yielded, in order
UsageBearing ==
    SelectSeq(an_items, LAMBDA e : e.kind = "message_delta" /\ IsSome(e.usage))

\* C10: with no reasoning usage recorded, every usage-bearing event of the
\* response stream still gets its usage event (the last one may be at its send),
\* whose reasoning token fields are all zero and whose combined total cost is
\* the response-stage cost alone.
C10_UsageWithoutReasoningUsage ==
    deepseek_usage = None =>
        /\ Cardinality(ProducedOfType("usage")) =
              Len(UsageBearing) - (IF pc = "send_usage" THEN 1 ELSE 0)
        /\ \A i \in ProducedOfType("usage") :
              LET u == produced[i].ev.usage
              IN  /\ u.deepseek_usage.input_tokens = 0
                  /\ u.deepseek_usage.output_tokens = 0
                  /\ u.deepseek_usage.reasoning_tokens = 0
                  /\ u.deepseek_usage.cached_input_tokens = 0
                  /\ u.deepseek_usage.total_tokens = 0
                  /\ u.total_cost = u.anthropic_usage.total_cost

C10_Witness ==
    /\ deepseek_usage = None
    /\ ProducedAt("ds_delta") # {}
    /\ ProducedOfType("usage") # {}
    /\ pc = "returned"

\* the reasoning provider's result has no first choice, or one without reasoning_content
NoReasoningContent(response) ==
    response.choices = <<>> \/ response.choices[1].reasoning_content = None

\* C11: in the non-streaming path a reasoning result without reasoning content
\* makes the request fail with a reasoning-provider error of type
\* "missing_content", and the response provider is never invoked.
C11_MissingContentFails ==
    (~req.stream /\ IsSome(cur) /\ NoReasoningContent(Unwrap(cur))) =>
        /\ pc = "failed"
        /\ IsSome(result)
        /\ ~Unwrap(result).ok
        /\ Unwrap(result).error.variant = "DeepSeekError"
        /\ Unwrap(result).error.type_ = "missing_content"
        /\ UpstreamOf("anthropic") = {}
        /\ anthropic_messages = None

C11_Witness ==
    /\ ~req.stream
    /\ pc = "failed"
    /\ IsSome(cur)
    /\ Unwrap(cur).choices # <<>>
    /\ NoReasoningContent(Unwrap(cur))
    /\ upstream = <<Up("deepseek", "request"), Up("deepseek", "response")>>

\* the HTTP exchanges begun with a provider
RequestsTo(provider) ==
    {i \in UpstreamOf(provider) : upstream[i].op = "request"}

ExchangeErrorTypes == {"request_failed", "api_error", "parse_error"}

\* C12: per request at most one HTTP exchange is begun with each provider; in
\* the non-streaming path a failed stage-1 exchange ends the request with that
\* reasoning-provider error and no stage-2 call, a failed stage-2 exchange ends
\* it with that response-provider error, and a result is returned only when
\* both exchanges succeeded.
C12_NoRetryErrorsAbort ==
    /\ Cardinality(RequestsTo("deepseek")) <= 1
    /\ Cardinality(RequestsTo("anthropic")) <= 1
    /\ ~req.stream =>
          /\ upstream = <<Up("deepseek", "request")>> =>
                /\ pc = "failed"
                /\ ~Unwrap(result).ok
                /\ Unwrap(result).error.variant = "DeepSeekError"
                /\ Unwrap(result).error.type_ \in ExchangeErrorTypes
          /\ (upstream # <<>> /\ upstream[Len(upstream)] = Up("anthropic", "request")) =>
                /\ pc = "failed"
                /\ ~Unwrap(result).ok
                /\ Unwrap(result).error.variant = "AnthropicError"
                /\ Unwrap(result).error.type_ \in ExchangeErrorTypes
          /\ (IsSome(result) /\ Unwrap(result).ok) =>
                /\ pc = "responded"
                /\ upstream = <<Up("deepseek", "request"), Up("deepseek", "response"),
                                Up("anthropic", "request"), Up("anthropic", "response")>>
          /\ pc = "failed" => (IsSome(result) /\ ~Unwrap(result).ok)

C12_Witness ==
    /\ ~req.stream
    /\ pc = "failed"
    /\ upstream = <<Up("deepseek", "request"), Up("deepseek", "response"),
                    Up("anthropic", "request")>>
    /\ Unwrap(result).error.type_ = "api_error"

\* the system-role messages of a request's message list
InListSystem(r) == {i \in 1..Len(r.messages) : r.messages[i].role = "system"}

\* the request has a root system field and an in-list system message
BothSystemSources(r) == r.system # None /\ InListSystem(r) # {}

\* C13: a request with both system prompt sources fails with the validation
\* error before anything else happens: no provider is contacted, no client
\* stream is built, the background task is never started and no event is sent.
C13_ValidationBeforeUpstream ==
    BothSystemSources(req) =>
        /\ pc \in {"handle_chat", "rejected"}
        /\ upstream = <<>>
        /\ produced = <<>> /\ chan = <<>> /\ received = <<>>
        /\ deepseek_stream = NoStream /\ anthropic_stream = NoStream
        /\ pc = "rejected" =>
              result = Some(Err(ApiError("InvalidSystemPrompt", "invalid_system_prompt", <<>>)))

C13_Witness ==
    /\ BothSystemSources(req)
    /\ req.stream
    /\ pc = "rejected"
    /\ ~Unwrap(result).ok

\* the handler has decided on the request's validity
Validated == pc # "handle_chat"

InvalidSystemPrompt == ApiError("InvalidSystemPrompt", "invalid_system_prompt", <<>>)

\* C14: validation fails exactly for the requests that have both a root system
\* field and an in-list system-role message: it passes whenever only one of the
\* two sources, or neither, is used.
C14_ValidateSystemPrompt ==
    /\ validate_system_prompt(req) <=> ~BothSystemSources(req)
    /\ Validated =>
          (result = Some(Err(InvalidSystemPrompt)) <=> BothSystemSources(req))
    /\ Validated => (pc = "rejected" <=> BothSystemSources(req))

C14_Witness ==
    /\ pc = "chat_deepseek"
    /\ req.system = None
    /\ Cardinality(InListSystem(req)) = 1
    /\ Len(req.messages) = 3

\* the number of system prompts a request carries
SystemPromptCount(r) ==
    (IF r.system # None THEN 1 ELSE 0) + Cardinality(InListSystem(r))

\* C15 (as claimed): every request validation accepts carries at most one
\* system prompt, counting the root field and every in-list system message.
C15_AtMostOneSystemPrompt ==
    (Validated /\ pc # "rejected") => SystemPromptCount(req) <= 1

\* the request's system prompt: the root field, else the first in-list system message
TheSystemPrompt(r) ==
    IF r.system # None THEN r.system[1]
    ELSE r.messages[CHOOSE i \in InListSystem(r) : \A j \in InListSystem(r) : i <= j].content

\* the stage-1 request has been sent
Stage1Sent == RequestsTo("deepseek") # {}

\* the message list sent to the reasoning provider
Stage1Messages == get_messages_with_system(req)

\* C16 (as claimed): the stage-1 input of a validated request that has a
\* system prompt starts with that system message, has no other system-role
\* message, and continues with the non-system messages in their original order.
C16_SystemMessageFirst ==
    (Stage1Sent /\ SystemPromptCount(req) > 0) =>
        /\ Stage1Messages # <<>>
        /\ Head(Stage1Messages) = Message("system", TheSystemPrompt(req))
        /\ \A i \in 2..Len(Stage1Messages) : Stage1Messages[i].role # "system"
        /\ Tail(Stage1Messages) = SelectSeq(req.messages, LAMBDA m : m.role # "system")

\* the stage-2 request has been sent
Stage2Sent == RequestsTo("anthropic") # {}

\* the body of the request sent to the response provider
Stage2Request ==
    anthropic_build_request(Unwrap(anthropic_messages), get_system_prompt(req), req.stream,
                            req.anthropic_config)

\* C17: in both paths the messages sent to the response provider are the
\* conversation's non-system messages in their order followed by one assistant
\* message, the last, holding the opening tag, the complete captured reasoning
\* and the closing tag; the request's system prompt, root or in-list, is passed
\* in the system field unchanged.
C17_Stage2Input ==
    Stage2Sent =>
        LET sent == Stage2Request.messages
            n == Len(sent)
        IN  /\ n >= 1
            /\ SubSeq(sent, 1, n - 1) = SelectSeq(req.messages, LAMBDA m : m.role # "system")
            /\ sent[n] = [role |-> "assistant",
                          content |-> <<"<thinking>\n">> \o CapturedReasoning
                                          \o <<"\n</thinking>">>]
            /\ IF SystemPromptCount(req) = 0
               THEN "system" \notin DOMAIN Stage2Request
               ELSE Stage2Request.system = TheSystemPrompt(req)

C17_Witness ==
    /\ Stage2Sent
    /\ req.stream
    /\ req.system = None
    /\ InListSystem(req) = {2}
    /\ complete_reasoning = <<"a", "b">>
    /\ pc = "returned"

\* C18: the non-streaming result's first content block is the reasoning text
\* between the thinking tags, the blocks after it are the response provider's
\* blocks, all of them and in their order, and the combined total cost is the
\* formatted sum of the two providers' costs.
C18_NonStreamingResult ==
    pc = "responded" =>
        LET out == Unwrap(result).value
            deepseek_response == Unwrap(cur)
            anthropic_response == an_items[1].message
            reasoning == Unwrap(deepseek_response.choices[1].reasoning_content)
            du == deepseek_response.usage
            au == anthropic_response.usage
            deepseek_cost == calculate_deepseek_cost(du.prompt_tokens, du.completion_tokens,
                                                     du.reasoning_tokens, du.cached_tokens)
            anthropic_cost == calculate_anthropic_cost(anthropic_response.model,
                                  au.input_tokens, au.output_tokens,
                                  au.cache_creation_input_tokens, au.cache_read_input_tokens)
        IN  /\ out.content[1] =
                  [content_type |-> "text",
                   text |-> <<"<thinking>\n">> \o reasoning \o <<"\n</thinking>">>]
            /\ Len(out.content) = 1 + Len(anthropic_response.content)
            /\ \A i \in 1..Len(anthropic_response.content) :
                  /\ out.content[i + 1].content_type = anthropic_response.content[i].content_type
                  /\ out.content[i + 1].text = anthropic_response.content[i].text
            /\ out.combined_usage.total_cost = format_cost(AddCost(deepseek_cost, anthropic_cost))

C18_Witness ==
    /\ pc = "responded"
    /\ Len(Unwrap(result).value.content) = 3
    /\ Unwrap(cur).choices[1].reasoning_content = Some(<<"a", "b">>)
    /\ an_items[1].message.model = HaikuModel

\* the read loop has consumed its whole byte stream and ended
ParserDone == parser.provider # "none" /\ parser.ended

\* the events the loop yields when the whole stream arrives as one chunk
WholeStreamEvents ==
    ParseBuffer(parser.provider, from_utf8_lossy(Wire(parser.frames))).events

\* C19 (as claimed): however the byte stream was cut into chunks, the events
\* decoded are those decoded when the whole stream is fed as one chunk.
C19_ChunkingInvariant == ParserDone => parser.events = WholeStreamEvents

RECURSIVE ExpectedEvents(_)
\* the events of the well-formed frames of a sequence of frames, in order
ExpectedEvents(frames) ==
    IF frames = <<>> THEN <<>> ELSE Head(frames).event \o ExpectedEvents(Tail(frames))

\* the frames whose closing blank line has been delivered
DeliveredFrames ==
    LET delivered == Len(Wire(parser.frames)) - Len(parser.pending)
        whole == {k \in 0..Len(parser.frames) :
                     Len(Wire(SubSeq(parser.frames, 1, k))) <= delivered}
    IN  SubSeq(parser.frames, 1, CHOOSE k \in whole : \A j \in whole : j <= k)

ByteLen(str) == Len(str) + Cardinality({i \in 1..Len(str) : str[i] = EAcute})

\* the bytes received after the closing blank line of the last delivered frame
UnconsumedInput ==
    LET wire == Wire(parser.frames)
    IN  SubSeq(wire, Len(Wire(DeliveredFrames)) + 1, Len(wire) - Len(parser.pending))

\* C21: after every chunk the read loop has yielded one event per well-formed
\* frame whose closing blank line has fully arrived and none for a later frame,
\* and the buffer it retains is the input received after the last such blank
\* line: it holds no blank line, it is as long in bytes as that input, and it
\* equals that input when no chunk boundary tore a character.
C21_BufferIsUnconsumedInput ==
    parser.provider # "none" =>
        /\ FindDelimiter(parser.data) = 0
        /\ Len(parser.events) = Len(ExpectedEvents(DeliveredFrames))
        /\ ByteLen(parser.data) = Len(UnconsumedInput)
        /\ ~parser.torn => parser.data = from_utf8_lossy(UnconsumedInput)

C21_Witness ==
    /\ parser.provider = "deepseek"
    /\ Len(parser.frames) = 3
    /\ parser.frames[1].event # None
    /\ parser.frames[2].event # None
    /\ Len(parser.events) = 1
    /\ parser.data = <<"data: ", "{", "a", "}", "\n">>
    /\ parser.pending # <<>>
    /\ parser.pending[1] = "\n"

\* a cost as a whole number of PerMillion-ths of a thousandth of a dollar
CostUnits(cost) == cost.milli * PerMillion + cost.frac

\* tokens * price per million tokens, in the same units
Charge(tokens, price) == 10 * tokens * price

DeepSeekCall == call.fn = "calculate_deepseek_cost" /\ call.outcome # "called"

\* C22 (as claimed): when the cached-token count exceeds the input-token count
\* the cache-miss count is taken as zero: the call returns, and its cost is
\* cached tokens at the hit rate plus output tokens at the output rate.
C22_CacheMissClampedAtZero ==
    (DeepSeekCall /\ call.args.cached_tokens > call.args.input_tokens) =>
        /\ call.outcome = "returned"
        /\ LET units == Charge(call.args.cached_tokens,
                                Pricing.deepseek.input_cache_hit_price)
                         + Charge(call.args.output_tokens, Pricing.deepseek.output_price)
           IN  call.cost = [milli |-> units \div PerMillion, frac |-> units % PerMillion]

\* C23: for a cached-token count not above the input-token count the cost is
\* cached tokens at the hit rate, the other input tokens at the miss rate and
\* output tokens at the output rate, per million, whatever the reasoning-token
\* count; a million uncached input tokens alone cost the miss rate and a million
\* output tokens alone the output rate.
C23_DeepSeekCost ==
    (DeepSeekCall /\ call.args.cached_tokens <= call.args.input_tokens) =>
        LET a == call.args
        IN  /\ call.outcome = "returned"
            /\ CostUnits(call.cost) =
                  Charge(a.cached_tokens, Pricing.deepseek.input_cache_hit_price)
                  + Charge(a.input_tokens - a.cached_tokens,
                           Pricing.deepseek.input_cache_miss_price)
                  + Charge(a.output_tokens, Pricing.deepseek.output_price)
            /\ (a.input_tokens = PerMillion /\ a.cached_tokens = 0 /\ a.output_tokens = 0) =>
                  call.cost = [milli |-> 10 * Pricing.deepseek.input_cache_miss_price,
                                  frac |-> 0]
            /\ (a.input_tokens = 0 /\ a.cached_tokens = 0 /\ a.output_tokens = PerMillion) =>
                  call.cost = [milli |-> 10 * Pricing.deepseek.output_price, frac |-> 0]

C23_Witness ==
    /\ DeepSeekCall
    /\ call.args.reasoning_tokens = PerMillion
    /\ call.args.input_tokens = PerMillion
    /\ call.args.cached_tokens = PerMillion \div 5
    /\ call.args.output_tokens = 1
    /\ call.cost.frac # 0

AnthropicCall == call.fn = "calculate_anthropic_cost" /\ call.outcome # "called"

\* the four token counts of the call, each at its rate of a pricing tier
TierCharge(tier) ==
    LET a == call.args
    IN  Charge(a.input_tokens, tier.input_price)
        + Charge(a.output_tokens, tier.output_price)
        + Charge(a.cache_write_tokens, tier.cache_write_price)
        + Charge(a.cache_read_tokens, tier.cache_read_price)

HasSonnet(model) == Contains(model, "claude-3-5-sonnet")
HasHaiku(model) == Contains(model, "claude-3-5-haiku")
HasOpus(model) == Contains(model, "claude-3-opus")

\* C24 (as claimed): the tier is the haiku one for an identifier holding the
\* haiku substring, else the opus one for an identifier holding the opus
\* substring, else the sonnet one; the cost is the four token counts at that
\* tier's rates per million.
C24_TierHaikuThenOpus ==
    AnthropicCall =>
        LET m == call.args.model
            tier == IF HasHaiku(m) THEN Pricing.anthropic.claude_3_haiku
                    ELSE IF HasOpus(m) THEN Pricing.anthropic.claude_3_opus
                    ELSE Pricing.anthropic.claude_3_sonnet
        IN  CostUnits(call.cost) = TierCharge(tier)

\* C24 (amended): the sonnet substring is tried first, then the haiku one, then
\* the opus one: the tier is the haiku one only for an identifier that holds
\* the haiku substring and not the sonnet one, the opus one only for an
\* identifier that holds the opus substring and neither of the others, and the
\* sonnet one for every other identifier; the cost is the four token counts at
\* that tier's rates per million.
C24_TierSonnetFirst ==
    AnthropicCall =>
        LET m == call.args.model
        IN  /\ call.outcome = "returned"
            /\ (HasHaiku(m) /\ ~HasSonnet(m)) =>
                  CostUnits(call.cost) = TierCharge(Pricing.anthropic.claude_3_haiku)
            /\ (HasOpus(m) /\ ~HasSonnet(m) /\ ~HasHaiku(m)) =>
                  CostUnits(call.cost) = TierCharge(Pricing.anthropic.claude_3_opus)
            /\ (HasSonnet(m) \/ (~HasHaiku(m) /\ ~HasOpus(m))) =>
                  CostUnits(call.cost) = TierCharge(Pricing.anthropic.claude_3_sonnet)

C24_Witness ==
    /\ AnthropicCall
    /\ HasHaiku(call.args.model)
    /\ HasSonnet(call.args.model)
    /\ call.args.input_tokens = PerMillion
    /\ call.args.output_tokens = 1
    /\ call.args.cache_write_tokens = PerMillion \div 5
    /\ call.args.cache_read_tokens = PerMillion \div 5
    /\ CostUnits(call.cost) = TierCharge(Pricing.anthropic.claude_3_sonnet)

\* a cost string with the currency prefix and exactly three decimal places
ThreeDecimals(str) == str.prefix = "$" /\ str.decimals = 3

\* the combined total and the two providers' usage costs of a CombinedUsage
AllThreeDecimals(usage) ==
    /\ ThreeDecimals(usage.total_cost)
    /\ ThreeDecimals(usage.deepseek_usage.total_cost)
    /\ ThreeDecimals(usage.anthropic_usage.total_cost)

RequestSent == call.fn # "none" /\ call.outcome = "sent"

ToDeepSeek == call.fn \in {"DeepSeekClient::chat", "DeepSeekClient::chat_stream"}
ToAnthropic == call.fn \in {"AnthropicClient::chat", "AnthropicClient::chat_stream"}

\* the streaming flag the orchestrator's path fixes
OrchestratorStream == call.fn \in {"DeepSeekClient::chat_stream", "AnthropicClient::chat_stream"}

\* every override key outside a key set is in the request with the caller's value
OverridesWinOutside(keys) ==
    \A k \in DOMAIN call.config.body \ keys :
        k \in DOMAIN call.request /\ call.request[k] = call.config.body[k]

\* C26 (as claimed): for both providers and every body-override map the request
\* has the orchestrator's streaming flag and the orchestrator's message list,
\* and every override key other than these two is in it with the caller's value.
C26_OnlyStreamAndMessagesProtected ==
    RequestSent =>
        /\ call.request.stream = OrchestratorStream
        /\ call.request.messages = call.messages
        /\ OverridesWinOutside({"stream", "messages"})

\* C26 (amended): the request has the orchestrator's streaming flag and the
\* orchestrator's message list, the response provider's without its system-role
\* entries; every other override key is in it with the caller's value, except
\* a system key in the response provider's overrides.
C26_ProtectedKeys ==
    RequestSent =>
        /\ call.request.stream = OrchestratorStream
        /\ ToDeepSeek =>
              /\ call.request.messages = call.messages
              /\ OverridesWinOutside({"stream", "messages"})
        /\ ToAnthropic =>
              /\ call.request.messages = SelectSeq(call.messages, LAMBDA m : m.role # "system")
              /\ OverridesWinOutside({"stream", "messages", "system"})

C26_Witness ==
    /\ RequestSent
    /\ call.fn = "DeepSeekClient::chat_stream"
    /\ call.config.body = FullBody(FALSE)
    /\ call.messages = <<SysMsg, UserMsg>>
    /\ call.request.stream
    /\ call.request.messages = <<SysMsg, UserMsg>>
    /\ call.request.model = OpusModel
    /\ call.request.top_p = 1

\* C27 (as claimed): a system key of the body overrides never reaches the
\* request: the reasoning provider's request has no system content but the
\* orchestrator's message list, and the response provider's system field is the
\* orchestrator's system prompt, or absent when there is none.
C27_SystemOverrideNeverSent ==
    RequestSent =>
        /\ ToDeepSeek =>
              /\ "system" \notin DOMAIN call.request
              /\ call.request.messages = call.messages
        /\ ToAnthropic =>
              IF IsSome(call.system)
              THEN "system" \in DOMAIN call.request /\ call.request.system = Unwrap(call.system)
              ELSE "system" \notin DOMAIN call.request

\* C27 (amended): a system key of the body overrides never reaches the response
\* provider's request, whose system field is the orchestrator's system prompt,
\* or absent when there is none; in the reasoning provider's request the
\* message list, system message included, is the orchestrator's, and a system
\* key of the overrides is sent along as a top-level field like any other key.
C27_SystemOverride ==
    RequestSent =>
        /\ ToDeepSeek =>
              /\ call.request.messages = call.messages
              /\ "system" \in DOMAIN call.request <=> "system" \in DOMAIN call.config.body
              /\ "system" \in DOMAIN call.request =>
                    call.request.system = call.config.body.system
        /\ ToAnthropic =>
              IF IsSome(call.system)
              THEN "system" \in DOMAIN call.request /\ call.request.system = Unwrap(call.system)
              ELSE "system" \notin DOMAIN call.request

C27_Witness ==
    /\ RequestSent
    /\ call.fn = "AnthropicClient::chat"
    /\ "system" \in DOMAIN call.config.body
    /\ call.system = Some(<<"s">>)
    /\ call.messages = <<UserMsg, AsstMsg>>
    /\ call.request.system = <<"s">>
    /\ ~call.request.stream

\* the events sent at a send site, in the order they were sent
EventsAt(site) ==
    LET idx == SelectSeq([i \in 1..Len(produced) |-> i], LAMBDA i : produced[i].site = site)
    IN  [k \in 1..Len(idx) |-> produced[idx[k]].ev]

IsMessageStart(event) == event.kind = "message_start"
IsEmptyStart(event) == IsMessageStart(event) /\ event.message.content = <<>>
IsNonEmptyStart(event) == IsMessageStart(event) /\ event.message.content # <<>>
IsContentDelta(event) == event.kind = "content_block_delta"

\* C28: the initial message events of the response stream that carry at least
\* one content block are forwarded, one content event each with as many blocks,
\* in order; an initial message event with an empty content list sends nothing,
\* and no content event with an empty block list is ever sent.
C28_EmptyStartSuppressed ==
    LET starts == SelectSeq(an_items, IsNonEmptyStart)
        sent == EventsAt("an_start")
        pending == IF pc = "send_an_start" THEN 1 ELSE 0
    IN  /\ Len(sent) = Len(starts) - pending
        /\ \A k \in 1..Len(sent) :
              /\ sent[k].type = "content"
              /\ Len(sent[k].content) = Len(starts[k].message.content)
        /\ \A i \in ProducedOfType("content") : produced[i].ev.content # <<>>

C28_Witness ==
    /\ pc = "returned"
    /\ \E i \in 1..Len(an_items) : IsEmptyStart(an_items[i])
    /\ \E i \in 1..Len(an_items) : IsNonEmptyStart(an_items[i])
    /\ Len(EventsAt("an_start")) = 1
    /\ produced[Len(produced)].ev = DoneEvent

\* C29: the content deltas of the response stream are forwarded one content
\* event each, in arrival order, with the delta's text and its own kind; the
\* response stream's events of every other kind account for no event: the
\* response-stage events before done or error are as many as the forwarded
\* initial messages, the deltas and the usage-bearing message deltas.
C29_DeltasForwardedVerbatim ==
    LET deltas == SelectSeq(an_items, IsContentDelta)
        sent == EventsAt("an_delta")
        pending == IF pc = "send_an_delta" THEN 1 ELSE 0
        waiting == IF pc \in {"send_an_start", "send_an_delta", "send_usage"} THEN 1 ELSE 0
    IN  /\ Len(sent) = Len(deltas) - pending
        /\ \A k \in 1..Len(sent) :
              sent[k] = [type |-> "content",
                         content |-> <<[content_type |-> deltas[k].delta.delta_type,
                                        text |-> deltas[k].delta.text]>>]
        /\ req.stream =>
              Len(EventsAt("an_start")) + Len(sent) + Len(EventsAt("usage")) =
                 Len(SelectSeq(an_items, IsNonEmptyStart)) + Len(deltas) + Len(UsageBearing)
                 - waiting

C29_Witness ==
    /\ pc = "returned"
    /\ Len(an_items) = 8
    /\ \E i \in 1..Len(an_items) : an_items[i].kind = "ping"
    /\ \E i \in 1..Len(an_items) : an_items[i].kind = "message_stop"
    /\ \E i \in 1..Len(an_items) : an_items[i].kind = "content_block_start"
    /\ \E i \in 1..Len(an_items) : an_items[i].kind = "content_block_stop"
    /\ EventsAt("an_delta") =
          <<ContentEvent(<<ContentBlock("text_delta", <<"y">>)>>),
            ContentEvent(<<ContentBlock("other_delta", <<"z">>)>>)>>

\* the reasoning loop has left through its break
AfterSentinel == SentinelSeen /\ req.stream

\* C30: the first chunk whose first choice has no reasoning content ends the
\* consumption of the reasoning stream: from then on no chunk of it is read,
\* yielded, emitted or accumulated, whatever the chunks behind it carry, and the
\* task is at the closing tag or past it, at stage 2.
C30_SentinelEndsReasoning ==
    /\ [](\A i \in 1..(Len(ds_items) - 1) : ~IsSentinel(ds_items[i]))
    /\ [](AfterSentinel =>
            \/ pc = "send_close_tag" /\ ProducedAt("close_tag") = {}
            \/ /\ pc \in {"an_next", "send_an_start", "send_an_delta", "send_usage",
                          "send_an_error", "send_done", "returned"}
               /\ Cardinality(ProducedAt("close_tag")) = 1
               /\ anthropic_stream.conn # "none"
               /\ IsSome(anthropic_messages))
    /\ [][AfterSentinel =>
            /\ ds_items' = ds_items
            /\ deepseek_stream' = deepseek_stream
            /\ complete_reasoning' = complete_reasoning
            /\ deepseek_usage' = deepseek_usage
            /\ UpstreamOf("deepseek")' = UpstreamOf("deepseek")
            /\ ProducedAt("ds_delta")' = ProducedAt("ds_delta")]_vars

C30_Witness ==
    /\ AfterSentinel
    /\ pc = "returned"
    /\ Len(ds_items) = 3
    /\ complete_reasoning = <<"a", "b">>
    /\ deepseek_stream.buf = <<DsFrame(<<DsDelta(Some(<<"c">>))>>, None)>>
    /\ \E i \in UpstreamOf("anthropic") : upstream[i].op = "read"
    /\ produced[Len(produced)].ev = DoneEvent

\* the task sends the error event of the failure held in cur
SendsError == pc \in {"send_ds_error", "send_an_error"} /\ produced' # produced

\* C31 (as claimed): the error event sent for a failure carries the error type
\* and the message of the JSON error body the non-streaming path returns for
\* the same failure, and a numeric code.
C31_ErrorEventMatchesErrorBody ==
    [][SendsError =>
          LET body == into_response(Unwrap(cur))
              event == produced'[Len(produced')].ev
          IN  /\ event.code = ErrorCode
              /\ event.message = body.message
              /\ \E k \in DOMAIN event \ {"type", "message", "code"} :
                    event[k] = body.type_]_vars

\* a header of one of the two provider configs cannot be built
InvalidHeader ==
    ~req.deepseek_config.headers_ok \/ ~req.anthropic_config.headers_ok

\* C33 (as claimed): a request with an invalid header in either provider's
\* config never reaches an upstream: neither provider is sent a request.
C33_InvalidHeaderBeforeUpstream ==
    InvalidHeader => RequestsTo("deepseek") \cup RequestsTo("anthropic") = {}

\* the texts of the content events of the reasoning stage sent so far (opening
\* tag, deltas, closing tag), in emission order
ReasoningTexts ==
    LET idx == SelectSeq([i \in 1..Len(produced) |-> i],
                         LAMBDA i : produced[i].site \in ReasoningSites)
    IN  [k \in 1..Len(idx) |-> produced[idx[k]].ev.content[1].text]

IsEmptyDelta(response) ==
    /\ response.choices # <<>>
    /\ response.choices[1].reasoning_content = Some(<<>>)

\* the reasoning loop takes an empty-string delta from its stream
TakesEmptyDelta ==
    /\ pc = "ds_next"
    /\ Len(ds_items') = Len(ds_items) + 1
    /\ IsEmptyDelta(ds_items'[Len(ds_items')])

\* C34: once stage 2 has been invoked in the streaming path, the synthesized
\* assistant turn is the concatenation, in emission order, of the texts of the
\* reasoning-stage content events (opening tag, deltas, closing tag); an empty
\* reasoning delta is never emitted, and taking one neither sends anything nor
\* changes the accumulated text nor leaves the reasoning loop.
C34_AssistantTurnIsEmittedText ==
    /\ []((req.stream /\ IsSome(anthropic_messages)) =>
            LET msgs == Unwrap(anthropic_messages)
            IN  msgs[Len(msgs)] = Message("assistant", Concat(ReasoningTexts)))
    /\ [](\A i \in ProducedAt("ds_delta") : produced[i].ev.content[1].text # <<>>)
    /\ [][TakesEmptyDelta =>
             /\ pc' = "ds_next"
             /\ produced' = produced
             /\ complete_reasoning' = complete_reasoning]_vars

C34_Witness ==
    /\ req.stream
    /\ pc = "returned"
    /\ IsSome(anthropic_messages)
    /\ \E i \in 1..Len(ds_items) : IsEmptyDelta(ds_items[i])
    /\ ReasoningTexts = <<ThinkOpen, <<"a">>, <<"b">>, ThinkClose>>
    /\ anthropic_stream.conn # "none"

\* the chunks the reasoning loop processed before the sentinel chunk
BeforeSentinel ==
    IF SentinelSeen THEN SubSeq(ds_items, 1, Len(ds_items) - 1) ELSE ds_items

\* the usage of the last usage-bearing chunk processed before the sentinel
LastUsageBeforeSentinel ==
    LET bearing == SelectSeq(BeforeSentinel, LAMBDA r : IsSome(r.usage))
    IN  IF bearing = <<>> THEN None ELSE bearing[Len(bearing)].usage

\* the token counts of the reasoning usage a usage event reports
ReportedReasoningTokens(u) ==
    <<u.deepseek_usage.input_tokens, u.deepseek_usage.output_tokens,
      u.deepseek_usage.reasoning_tokens, u.deepseek_usage.cached_input_tokens,
      u.deepseek_usage.total_tokens>>

\* C35: once the reasoning stage is over, the recorded reasoning usage is the
\* usage of the last usage-bearing chunk processed before the sentinel chunk,
\* never the one carried by the sentinel chunk itself, and every usage event
\* reports exactly that usage, all-zero token counts when there is none.
C35_UsageBeforeSentinelOnly ==
    (req.stream /\ IsSome(anthropic_messages)) =>
        /\ deepseek_usage = LastUsageBeforeSentinel
        /\ \A i \in ProducedOfType("usage") :
              ReportedReasoningTokens(produced[i].ev.usage) =
                 IF LastUsageBeforeSentinel = None THEN <<0, 0, 0, 0, 0>>
                 ELSE LET usage == Unwrap(LastUsageBeforeSentinel)
                      IN  <<usage.prompt_tokens, usage.completion_tokens,
                            usage.reasoning_tokens, usage.cached_tokens, usage.total_tokens>>

C35_Witness ==
    /\ req.stream
    /\ pc = "returned"
    /\ SentinelSeen
    /\ ds_items[Len(ds_items)].usage = Some(DsUsageB)
    /\ deepseek_usage = Some(DsUsageA)
    /\ ProducedOfType("usage") # {}

\* the model the response provider names in the first message_start of its stream
ServingModel == SelectSeq(an_items, IsMessageStart)[1].message.model

\* C36 (as claimed): in the streaming path the response-stage cost and the
\* combined total cost of every usage event are those the non-streaming result
\* reports for the same token counts: the cost priced at the tier of the model
\* that served the request.
C36_StreamingCostAtServingModel ==
    (req.stream /\ SelectSeq(an_items, IsMessageStart) # <<>>) =>
        \A i \in ProducedOfType("usage") :
            LET u == produced[i].ev.usage
                a == u.anthropic_usage
                cost == calculate_anthropic_cost(ServingModel, a.input_tokens,
                            a.output_tokens, a.cached_write_tokens, a.cached_read_tokens)
            IN  /\ a.total_cost = format_cost(cost)
                /\ u.total_cost =
                      format_cost(AddCost(StreamDeepSeekUsage(deepseek_usage).cost, cost))

\* the reasoning stream has ended, by its sentinel chunk or by the end of its
\* transport, and has yielded no error
ReasoningEndedOk ==
    /\ SentinelSeen \/ deepseek_stream.conn = "closed"
    /\ deepseek_stream.conn # "failed"

\* the task has called anthropic_client.chat_stream
Stage2Invoked == anthropic_stream # NoStream

\* C37: in the streaming path the response provider is invoked only after the
\* reasoning stream ended without an error, and once it has so ended the task
\* is at the send of the closing tag or has invoked the response provider; the
\* closing tag is emitted before the invocation, and when no reasoning delta
\* was emitted the synthesized assistant turn is the empty thinking block.
C37_Stage2WhenReasoningEnded ==
    req.stream =>
        /\ Stage2Invoked =>
              /\ ReasoningEndedOk
              /\ ProducedAt("close_tag") # {}
              /\ IsSome(anthropic_messages)
        /\ UpstreamOf("anthropic") # {} => Stage2Invoked
        /\ ReasoningEndedOk => (pc = "send_close_tag" \/ Stage2Invoked)
        /\ (Stage2Invoked /\ ProducedAt("ds_delta") = {}) =>
              LET msgs == Unwrap(anthropic_messages)
              IN  msgs[Len(msgs)] = Message("assistant", ThinkOpen \o ThinkClose)

C37_Witness ==
    /\ req.stream
    /\ Stage2Invoked
    /\ deepseek_stream.conn = "closed"
    /\ \E i \in 1..Len(ds_items) : IsEmptyDelta(ds_items[i])
    /\ ProducedAt("ds_delta") = {}
    /\ RequestsTo("anthropic") # {}
    /\ ProducedEvents[3] = ContentEvent(<<ContentBlock("text", ThinkClose)>>)

\* C38: when the byte stream of either provider ends with a final frame that
\* no blank line closes, the generator ends having yielded exactly the events
\* of the closed well-formed frames: the open frame, still in the buffer,
\* yields no event.
C38_UnterminatedTailDropped ==
    (parser.provider # "none" /\ parser.ended) =>
        /\ parser.events = ExpectedEvents(parser.frames)
        /\ parser.data = parser.tail

C38_Witness ==
    /\ parser.provider = "deepseek"
    /\ parser.ended
    /\ parser.tail = <<"data: ", "{", "a", "}">>
    /\ Len(parser.frames) = 2
    /\ parser.frames[2].event = None
    /\ parser.events = <<[text |-> <<"a">>]>>
    /\ parser.data = parser.tail

\* the terminal events sent so far
TerminalEvents == ProducedOfType("done") \cup ProducedOfType("error")

\* C39: with finite upstream streams that answer every poll and a consumer that
\* keeps reading or disconnects, a spawned streaming task always comes to its
\* end with the hand-off channel drained, and it never sends more than one
\* terminal event (done or error).
C39_TaskTerminates ==
    /\ (pc = "send_start") ~> (pc = "returned" /\ chan = <<>>)
    /\ [](Cardinality(TerminalEvents) <= 1)

C39_Witness ==
    /\ pc = "returned"
    /\ rxOpen
    /\ chan = <<>>
    /\ Len(received) >= 5
    /\ received = ProducedEvents
    /\ Cardinality(TerminalEvents) = 1

IsPrefix(a, b) == Len(a) <= Len(b) /\ SubSeq(b, 1, Len(a)) = a

\* the frames request r's providers answer with
PairDsFrames(r) ==
    UNION { {PairDsBody(r)[k][j] : j \in 1..Len(PairDsBody(r)[k])} :
              k \in 1..Len(PairDsBody(r)) }
PairAnFrames(r) ==
    UNION { {PairAnBody(r)[k][j] : j \in 1..Len(PairAnBody(r)[k])} :
              k \in 1..Len(PairAnBody(r)) }

\* C32: with two requests in flight, under every interleaving of their tasks
\* and consumers, the events a consumer has received were all sent by its own
\* request's task and are a prefix of what that task has sent, in order; the
\* accumulated reasoning text, the recorded usage and the generators' buffers
\* of a request hold only that request's upstream data.
C32_RequestsIsolated ==
    \A r \in PairIds :
        LET task == pair.tasks[r]
            got == pair.received[r]
        IN  /\ \A i \in 1..Len(got) : got[i].from = r
            /\ IsPrefix([i \in 1..Len(got) |-> got[i].ev], task.produced)
            /\ IsPrefix(task.complete_reasoning, <<Tag(r), "b", Tag(r)>>)
            /\ task.deepseek_usage \in {None, Some(PairDsUsage(r))}
            /\ \A i \in 1..Len(task.deepseek_stream.buf) :
                  task.deepseek_stream.buf[i] \in PairDsFrames(r)
            /\ \A i \in 1..Len(task.anthropic_stream.buf) :
                  task.anthropic_stream.buf[i] \in PairAnFrames(r)

C32_Witness ==
    /\ pair.tasks[1].pc = "ds_next"
    /\ pair.tasks[1].complete_reasoning = <<"r1">>
    /\ pair.tasks[1].deepseek_stream.buf # <<>>
    /\ Len(pair.received[1]) = 3
    /\ pair.tasks[2].pc = "send_usage"
    /\ pair.tasks[2].deepseek_usage = Some(DsUsageB)
    /\ Len(pair.received[2]) = 5
    /\ pair.chans[2] # <<>>

====
